---- MODULE Spec2Model ----
(***************************************************************************)
(* The record store of the application context (AppProvider): the five     *)
(* in-memory collections, the handlers that mutate them, and the values    *)
(* the handlers read.                                                      *)
(*                                                                         *)
(* A handler is a closure of one render of the provider.  What it READS    *)
(* (products, projects, clients) is the state as of that render; what it   *)
(* WRITES goes through functional updaters (setX(prev => ...)), which act  *)
(* on the latest state.  The variable `rendered` is the state the handlers *)
(* in the caller's hands were created with; Render hands out new handlers. *)
(*                                                                         *)
(* Money is kept as integers counting half centavos: a budget of whole     *)
(* centavos is an even number, and budget * 0.5 is exact.                  *)
(*                                                                         *)
(* The queries (calculateProductCost, and checkCircularReference when it   *)
(* is looked at on its own) write nothing; `returned` records the call and *)
(* what it handed back.                                                    *)
(***************************************************************************)
EXTENDS Integers, Sequences, FiniteSets, TLC

\* ------------------------------------------------------------------ bounds
\* The largest id generateId hands out in a run.
MaxId == 8
\* The largest id generateId hands out to a product.
MaxProductId == 4
\* How many calls a caller issues with the handlers of one render.
MaxCallsPerRender == 2
\* The longest component list a caller passes to addProduct / updateProduct.
MaxComps == 1
\* The longest list of line items a caller passes to addProject.
MaxItems == 1
\* The largest number of data rows in an imported projects file.
MaxRows == 2
\* The largest number of projects stored at a time.
MaxProjects == 2
\* The largest number of projects with line items stored at a time.
MaxSales == 1
\* The longest list of line items of a sale whose cascade is followed.
MaxLines == 2
\* The largest id generateId hands out while cascades are followed.
MaxCascadeId == 10
\* The largest id generateId hands out while the ledger is followed.
MaxLedgerId == 14
\* The largest number of stock movements stored when a caller adds one.
MaxMovements == 2
\* The largest number of records linked to no project that a caller adds to
\* a ledger.
MaxUnlinked == 1
\* The longest component list of a product of a stored catalog that is
\* queried.
MaxCatalogComps == 2
\* The largest number of clients stored at a time.
MaxClients == 2
\* largest number of projects, and of transactions, the dashboard is asked about
MaxFeed == 4
\* largest number of records of an exported collection
MaxCsvRecords == 2

VARIABLES
    clients,           \* Client[]          (most recent first)
    projects,          \* Project[]
    transactions,      \* Transaction[]
    products,          \* Product[]
    stockMovements,    \* StockMovement[]
    rendered,          \* the collections as of the render the handlers close over
    nextId,            \* generateId: the next id never handed out before
    callsSinceRender,  \* calls made with the handlers of the current render
    returned,          \* what the last query returned: calculateProductCost, checkCircularReference
    lastError,         \* how the last call settled: "none" or the error thrown
    retiredNumbers,    \* history: numbers of the projects deleted so far
    storage,           \* localStorage: what is kept under each of the five keys
    loading            \* the provider's loading flag: the load effect has not run

vars == <<clients, projects, transactions, products, stockMovements,
          rendered, nextId, callsSinceRender, returned, lastError,
          retiredNumbers, storage, loading>>

\* project_id of a transaction or movement that is linked to no project
NoProject == 0

\* no query was made yet
NoQuery == [op |-> "none"]

\* ------------------------------------------------------------ sequences
\* Array.prototype.find by id: the first record with that id, or none
IndexOfId(s, id) ==
    IF \E i \in 1..Len(s) : s[i].id = id
    THEN CHOOSE i \in 1..Len(s) : s[i].id = id /\ \A j \in 1..(i-1) : s[j].id # id
    ELSE 0

HasId(s, id) == IndexOfId(s, id) # 0

FindById(s, id) == s[IndexOfId(s, id)]

\* [x, ...prev]
Prepend(x, s) == <<x>> \o s

\* Math.max(...numbers) of a non-empty set
MaxOf(S) == CHOOSE m \in S : \A n \in S : n <= m

\* ------------------------------------------------------------ the store
\* The state the functional updaters act on, as one value.
Store == [clients        |-> clients,
          projects       |-> projects,
          transactions   |-> transactions,
          products       |-> products,
          stockMovements |-> stockMovements,
          nextId         |-> nextId]

\* The state a render captures for its handlers.
Snapshot == [clients |-> clients, projects |-> projects, products |-> products]

\* ------------------------------------------------------------- storage
StorageKeys == {"clients", "projects", "transactions", "products", "stockMovements"}

\* What localStorage holds under a key: the JSON of an array, nothing
\* (getItem returns null), or a text that JSON.parse rejects.
Item(value) == [state |-> "ok", value |-> value]

NoItem == [state |-> "missing"]

BadItem == [state |-> "corrupt"]

\* loadFromStorage(key, [])
loadFromStorage(stg, key) ==
    IF stg[key].state = "ok" THEN stg[key].value ELSE <<>>

\* saveToStorage(key, value)
saveToStorage(stg, key, value) == [stg EXCEPT ![key] = Item(value)]

\* The five save effects, run after a render: each writes its collection.
saveEffects(st) == [key \in StorageKeys |-> Item(st[key])]

\* A handler's outcome: the store it leaves and the error it threw.
Ok(st) == [st |-> st, error |-> "none"]
Throw(st, e) == [st |-> st, error |-> e]

\* -------------------------------------------------------------- catalog
\* the check that looks at the proposed component only, not at what it is
\* made of
checkCircularReference_direct(ps, productId, componentId, stack) ==
    IF productId = componentId THEN "true" ELSE "false"

\* checkCircularReference(productId, componentId) over the catalog ps the
\* handler closes over.  The code recurses with no visited set: a call on a
\* component that is already on the call stack repeats itself for ever, and
\* the engine ends it with a RangeError ("overflow").  `stack` is the set of
\* component ids of the calls in progress.
RECURSIVE checkCircularReference(_, _, _, _), checkComponentsOf(_, _, _, _, _)
checkCircularReference(ps, productId, componentId, stack) ==
    IF productId = componentId THEN "true"
    ELSE IF ~HasId(ps, componentId) THEN "false"
    ELSE IF componentId \in stack THEN "overflow"
    ELSE checkComponentsOf(ps, productId, FindById(ps, componentId).components,
                           1, stack \cup {componentId})

\* the for loop of checkCircularReference, from the i-th component on
checkComponentsOf(ps, productId, comps, i, stack) ==
    IF i > Len(comps) THEN "false"
    ELSE LET r == checkCircularReference(ps, productId, comps[i].product_id, stack)
         IN  IF r = "false"
             THEN checkComponentsOf(ps, productId, comps, i + 1, stack)
             ELSE r

\* the for loop of addProduct / updateProduct over the passed component list:
\* "true" at the first component that closes a cycle, "overflow" if a check
\* never returns, "false" when every check returned false
RECURSIVE validateComponents(_, _, _, _)
validateComponents(ps, productId, comps, i) ==
    IF i > Len(comps) THEN "false"
    ELSE LET r == checkCircularReference(ps, productId, comps[i].product_id, {})
         IN  IF r = "false" THEN validateComponents(ps, productId, comps, i + 1)
             ELSE r

ErrorOf(verdict) == IF verdict = "true" THEN "circular" ELSE "RangeError"

\* addProduct(productData): productData has no id
addProduct(st, snap, productData) ==
    LET hasComps == Len(productData.components) > 0
        tempId   == st.nextId
        verdict  == IF hasComps
                    THEN validateComponents(snap.products, tempId,
                                            productData.components, 1)
                    ELSE "false"
        newId    == IF hasComps THEN st.nextId + 1 ELSE st.nextId
        newProduct == [id |-> newId] @@ productData
    IN  IF verdict # "false" THEN Throw(st, ErrorOf(verdict))
        ELSE Ok([st EXCEPT !.products = Prepend(newProduct, @),
                           !.nextId = newId + 1])

\* updateProduct(product): product is a whole record, id included
updateProduct(st, snap, product) ==
    LET verdict == IF Len(product.components) > 0
                   THEN validateComponents(snap.products, product.id,
                                           product.components, 1)
                   ELSE "false"
    IN  IF verdict # "false" THEN Throw(st, ErrorOf(verdict))
        ELSE Ok([st EXCEPT !.products =
                    [i \in DOMAIN @ |-> IF @[i].id = product.id THEN product ELSE @[i]]])

\* deleteProduct(id)
deleteProduct(st, snap, id) ==
    LET usedIn == \E i \in DOMAIN snap.products :
                     \E j \in DOMAIN snap.products[i].components :
                        snap.products[i].components[j].product_id = id
    IN  IF usedIn THEN Throw(st, "in_use")
        ELSE Ok([st EXCEPT !.products = SelectSeq(@, LAMBDA p : p.id # id)])

\* What a query hands back: a value, or the RangeError of a recursion that
\* never returns.
Returns(v) == [error |-> "none", value |-> v]
Overflows == [error |-> "RangeError"]

RECURSIVE calculateProductCost(_, _, _), sumComponentCosts(_, _, _, _, _)
RECURSIVE sumComponentCosts_unweighted(_, _, _, _, _)
\* the for loop with totalCost += componentCost
sumComponentCosts_unweighted(ps, comps, j, totalCost, stack) ==
    IF j > Len(comps) THEN Returns(totalCost)
    ELSE LET componentCost == calculateProductCost(ps, comps[j].product_id, stack)
         IN  IF componentCost.error # "none" THEN componentCost
             ELSE sumComponentCosts_unweighted(ps, comps, j + 1,
                      totalCost + componentCost.value, stack)

\* the for loop of calculateProductCost, from the j-th component on
sumComponentCosts(ps, comps, j, totalCost, stack) ==
    IF j > Len(comps) THEN Returns(totalCost)
    ELSE LET componentCost == calculateProductCost(ps, comps[j].product_id, stack)
         IN  IF componentCost.error # "none" THEN componentCost
             ELSE sumComponentCosts(ps, comps, j + 1,
                      totalCost + componentCost.value * comps[j].quantity, stack)

\* calculateProductCost(productId) over the catalog ps the handler closes
\* over.  Like checkCircularReference it recurses with no visited set:
\* `stack` is the set of the ids of the calls in progress, and a call on one
\* of them never returns.
calculateProductCost(ps, productId, stack) ==
    IF ~HasId(ps, productId) THEN Returns(0)
    ELSE LET product == FindById(ps, productId)
         IN  IF product.type = "material_bruto" THEN Returns(product.cost_price)
             ELSE IF productId \in stack THEN Overflows
             ELSE sumComponentCosts(ps, product.components, 1, 0,
                                    stack \cup {productId})

\* ------------------------------------------------------------ projects
\* the whole budget where half of it is due
half_whole(budget) == budget

\* budget * 0.5.  Money is counted in half centavos, so that a budget of
\* whole centavos is an even number and its half is exact.
half(budget) == budget \div 2

\* { ...record, ...updates }
Merge(record, updates) ==
    [f \in DOMAIN record \cup DOMAIN updates |->
        IF f \in DOMAIN updates THEN updates[f] ELSE record[f]]

\* addClient(clientData): clientData has no id
addClient(st, clientData) ==
    LET newClient == [id |-> st.nextId] @@ clientData
    IN  Ok([st EXCEPT !.clients = Prepend(newClient, @),
                      !.nextId = @ + 1])

\* updateClient(id, updates): updates holds any subset of the fields
updateClient(st, id, updates) ==
    Ok([st EXCEPT !.clients = [i \in DOMAIN @ |->
            IF @[i].id = id THEN Merge(@[i], updates) ELSE @[i]]])

\* deleteClient(id)
deleteClient(st, id) ==
    Ok([st EXCEPT !.clients = SelectSeq(@, LAMBDA client : client.id # id)])

\* addTransaction(transactionData): transactionData has no id
addTransaction(st, transactionData) ==
    LET newTransaction == [id |-> st.nextId] @@ transactionData
    IN  [st EXCEPT !.transactions = Prepend(newTransaction, @),
                   !.nextId = @ + 1]

\* addStockMovement with the stock kept at zero or above
addStockMovement_floored(st, movementData) ==
    LET newMovement == [id |-> st.nextId] @@ movementData
        newStock(p) == IF movementData.type = "entrada"
                       THEN p.current_stock + movementData.quantity
                       ELSE IF p.current_stock < movementData.quantity THEN 0
                       ELSE p.current_stock - movementData.quantity
    IN  [st EXCEPT !.stockMovements = Prepend(newMovement, @),
                   !.nextId = @ + 1,
                   !.products = [i \in DOMAIN st.products |->
                       IF st.products[i].id = movementData.product_id
                       THEN [st.products[i] EXCEPT
                                !.current_stock = newStock(st.products[i])]
                       ELSE st.products[i]]]

\* addStockMovement(movementData): movementData has no id
addStockMovement(st, movementData) ==
    LET newMovement == [id |-> st.nextId] @@ movementData
        newStock(p) == IF movementData.type = "entrada"
                       THEN p.current_stock + movementData.quantity
                       ELSE p.current_stock - movementData.quantity
    IN  [st EXCEPT !.stockMovements = Prepend(newMovement, @),
                   !.nextId = @ + 1,
                   !.products = [i \in DOMAIN st.products |->
                       IF st.products[i].id = movementData.product_id
                       THEN [st.products[i] EXCEPT
                                !.current_stock = newStock(st.products[i])]
                       ELSE st.products[i]]]

\* the inner loop with the component's own quantity, not scaled by the line
RECURSIVE consumeComponents_unscaled(_, _, _, _, _)
consumeComponents_unscaled(st, projectId, projectProduct, comps, j) ==
    IF j > Len(comps) THEN st
    ELSE LET component == comps[j]
         IN  consumeComponents_unscaled(
                 addStockMovement(st,
                     [product_id |-> component.product_id,
                      type       |-> "saida",
                      quantity   |-> component.quantity,
                      unit_price |-> component.unit_cost,
                      total_value |-> component.total_cost,
                      project_id |-> projectId]),
                 projectId, projectProduct, comps, j + 1)

\* the inner loop of processProjectStockMovement: one out movement for each
\* component of the sold product, from the j-th component on
RECURSIVE consumeComponents(_, _, _, _, _)
consumeComponents(st, projectId, projectProduct, comps, j) ==
    IF j > Len(comps) THEN st
    ELSE LET component == comps[j]
             totalQuantity == component.quantity * projectProduct.quantity
         IN  consumeComponents(
                 addStockMovement(st,
                     [product_id |-> component.product_id,
                      type       |-> "saida",
                      quantity   |-> totalQuantity,
                      unit_price |-> component.unit_cost,
                      total_value |-> component.total_cost * projectProduct.quantity,
                      project_id |-> projectId]),
                 projectId, projectProduct, comps, j + 1)

\* the cascade with the components consumed before the sold product
RECURSIVE processProjectStockMovement_componentsFirst(_, _, _, _, _)
processProjectStockMovement_componentsFirst(st, snap, projectId, projectProducts, i) ==
    IF i > Len(projectProducts) THEN st
    ELSE LET projectProduct == projectProducts[i]
             found    == HasId(snap.products, projectProduct.product_id)
             product  == FindById(snap.products, projectProduct.product_id)
             consumed == IF product.type # "material_bruto"
                         THEN consumeComponents(st, projectId, projectProduct,
                                                product.components, 1)
                         ELSE st
             after    == IF ~found THEN st
                         ELSE addStockMovement(consumed,
                                  [product_id |-> product.id,
                                   type       |-> "saida",
                                   quantity   |-> projectProduct.quantity,
                                   unit_price |-> projectProduct.unit_price,
                                   total_value |-> projectProduct.total_price,
                                   project_id |-> projectId])
         IN  processProjectStockMovement_componentsFirst(after, snap, projectId,
                                                         projectProducts, i + 1)

\* processProjectStockMovement(projectId, projectProducts), from the i-th
\* line item on; the products are looked up in the catalog the handler
\* closes over
RECURSIVE processProjectStockMovement(_, _, _, _, _)
processProjectStockMovement(st, snap, projectId, projectProducts, i) ==
    IF i > Len(projectProducts) THEN st
    ELSE LET projectProduct == projectProducts[i]
             found   == HasId(snap.products, projectProduct.product_id)
             product == FindById(snap.products, projectProduct.product_id)
             sold    == addStockMovement(st,
                            [product_id |-> product.id,
                             type       |-> "saida",
                             quantity   |-> projectProduct.quantity,
                             unit_price |-> projectProduct.unit_price,
                             total_value |-> projectProduct.total_price,
                             project_id |-> projectId])
             after   == IF ~found THEN st
                        ELSE IF product.type # "material_bruto"
                        THEN consumeComponents(sold, projectId, projectProduct,
                                               product.components, 1)
                        ELSE sold
         IN  processProjectStockMovement(after, snap, projectId, projectProducts, i + 1)

\* the number addProject gives the new project
projectNumberOf(snap) ==
    IF Len(snap.projects) > 0
    THEN MaxOf({snap.projects[i].number : i \in DOMAIN snap.projects}) + 1
    ELSE 1

\* the newProject.id a call of addProject on st generates
newProjectId(st) == st.nextId

\* addProject(projectData): projectData has no id and no number
addProject(st, snap, projectData) ==
    LET projectNumber == projectNumberOf(snap)
        newProject == [id |-> newProjectId(st), number |-> projectNumber] @@ projectData
        stored == [st EXCEPT !.projects = Prepend(newProject, @),
                             !.nextId = @ + 1]
        signalAmount == half(projectData.budget)
        signalled == addTransaction(stored,
                        [project_id |-> newProject.id,
                         type       |-> "entrada",
                         category   |-> "Sinal",
                         amount     |-> signalAmount])
    IN  IF projectData.type = "venda" /\ projectData.status # "orcamento"
        THEN IF Len(projectData.products) > 0
             THEN Ok(processProjectStockMovement(signalled, snap, newProject.id,
                                                 projectData.products, 1))
             ELSE Ok(signalled)
        ELSE Ok(stored)

\* updateProject that takes every change of status for a completion
updateProject_paysOnEveryStatus(st, snap, id, updates) ==
    LET found   == HasId(snap.projects, id)
        project == FindById(snap.projects, id)
        merged  == [st EXCEPT !.projects = [i \in DOMAIN @ |->
                       IF @[i].id = id THEN Merge(@[i], updates) ELSE @[i]]]
        completes == /\ "status" \in DOMAIN updates
                     /\ found
                     /\ project.status # updates.status
    IN  IF completes
        THEN Ok(addTransaction(merged,
                    [project_id |-> id,
                     type       |-> "entrada",
                     category   |-> "Pagamento Final",
                     amount     |-> half(project.budget)]))
        ELSE Ok(merged)

\* updateProject(id, updates): updates holds any subset of the fields
updateProject(st, snap, id, updates) ==
    LET found   == HasId(snap.projects, id)
        project == FindById(snap.projects, id)
        merged  == [st EXCEPT !.projects = [i \in DOMAIN @ |->
                       IF @[i].id = id THEN Merge(@[i], updates) ELSE @[i]]]
        completes == /\ "status" \in DOMAIN updates
                     /\ updates.status = "concluido"
                     /\ found
                     /\ project.status # "concluido"
        remainingAmount == half(project.budget)
    IN  IF completes
        THEN Ok(addTransaction(merged,
                    [project_id |-> id,
                     type       |-> "entrada",
                     category   |-> "Pagamento Final",
                     amount     |-> remainingAmount]))
        ELSE Ok(merged)

\* deleteProject that removes the project and leaves the ledgers alone
deleteProject_projectOnly(st, id) ==
    Ok([st EXCEPT !.projects = SelectSeq(@, LAMBDA project : project.id # id)])

\* deleteProject(id)
deleteProject(st, id) ==
    Ok([st EXCEPT !.projects = SelectSeq(@, LAMBDA project : project.id # id),
                  !.transactions = SelectSeq(@, LAMBDA t : t.project_id # id),
                  !.stockMovements = SelectSeq(@, LAMBDA sm : sm.project_id # id)])

\* importProjectsCSV(file), from the i-th data row on.  A row is the values
\* parseCSVLine returns for a line of at least 8 fields, the numeric ones
\* already through parseFloat; every row is added with the handlers (and the
\* clients) of the one render the import was started from.
RECURSIVE importProjectsCSV(_, _, _, _)
importProjectsCSV(st, snap, rows, i) ==
    IF i > Len(rows) THEN Ok(st)
    ELSE LET values == rows[i]
             known  == \E c \in DOMAIN snap.clients : snap.clients[c].name = values.cliente
             client == snap.clients[CHOOSE c \in DOMAIN snap.clients :
                          /\ snap.clients[c].name = values.cliente
                          /\ \A b \in 1..(c - 1) : snap.clients[b].name # values.cliente]
             projectData == [client_id |-> client.id,
                             status    |-> values.status,
                             type      |-> values.tipo,
                             products  |-> <<>>,
                             budget    |-> values.orcamento]
         IN  IF ~known THEN importProjectsCSV(st, snap, rows, i + 1)
             ELSE importProjectsCSV(addProject(st, snap, projectData).st,
                                    snap, rows, i + 1)

\* ------------------------------------------------------------- actions
\* The caller still holds handlers of the current render.
CanCall == callsSinceRender < MaxCallsPerRender

\* A handler has run to its end: the updaters it queued are applied.  The
\* run stops handing out ids after top.
SettleUpTo(r, top) ==
    /\ r.st.nextId <= top + 1
    /\ clients' = r.st.clients
    /\ projects' = r.st.projects
    /\ transactions' = r.st.transactions
    /\ products' = r.st.products
    /\ stockMovements' = r.st.stockMovements
    /\ nextId' = r.st.nextId
    /\ lastError' = r.error
    /\ callsSinceRender' = callsSinceRender + 1
    /\ UNCHANGED <<rendered, returned, storage, loading>>

Settle(r) == SettleUpTo(r, MaxId)

\* A handler has run to its end and the provider has rendered again, save
\* effects included.
SettleAndRender(r) ==
    /\ r.st.nextId <= MaxId + 1
    /\ clients' = r.st.clients
    /\ projects' = r.st.projects
    /\ transactions' = r.st.transactions
    /\ products' = r.st.products
    /\ stockMovements' = r.st.stockMovements
    /\ nextId' = r.st.nextId
    /\ lastError' = r.error
    /\ callsSinceRender' = 0
    /\ rendered' = [clients  |-> r.st.clients,
                    projects |-> r.st.projects,
                    products |-> r.st.products]
    /\ storage' = IF loading THEN storage ELSE saveEffects(r.st)
    /\ UNCHANGED <<returned, loading>>

\* The provider renders again: the handlers handed out from now on close
\* over the current collections, and the save effects write them to storage.
Render ==
    /\ callsSinceRender > 0
    /\ rendered' = Snapshot
    /\ callsSinceRender' = 0
    /\ storage' = IF loading THEN storage ELSE saveEffects(Store)
    /\ UNCHANGED <<clients, projects, transactions, products, stockMovements,
                   nextId, returned, lastError, retiredNumbers, loading>>

\* generateId is `${Date.now()}-${random}`: an id cannot be named before it
\* is generated.  UnknownId stands for every id that generateId never returns.
UnknownId == -1

\* The handlers return no id (Promise<void>): a caller learns an id only
\* from the collections of a render.
IdsOf(s) == {s[i].id : i \in DOMAIN s}

\* ids a caller may name for a product: those of the rendered catalog, and
\* one that is never generated
ProductIdsIn == IdsOf(rendered.products) \cup {UnknownId}

ComponentIn == [product_id : ProductIdsIn, quantity : {2},
                unit_cost : {120}, total_cost : {240}]

ComponentListsIn == UNION {[1..n -> ComponentIn] : n \in 0..MaxComps}

ProductDataIn == [type : {"material_bruto", "parte_produto"},
                  components : ComponentListsIn,
                  cost_price : {120}, current_stock : {50}]

ProductIn == [id : ProductIdsIn, type : {"material_bruto", "parte_produto"},
              components : ComponentListsIn,
              cost_price : {120}, current_stock : {50}]

AddProduct ==
    \E d \in ProductDataIn :
        /\ CanCall
        /\ addProduct(Store, rendered, d).st.nextId <= MaxProductId + 1
        /\ Settle(addProduct(Store, rendered, d))
        /\ UNCHANGED retiredNumbers

UpdateProduct ==
    \E p \in ProductIn :
        CanCall /\ Settle(updateProduct(Store, rendered, p)) /\ UNCHANGED retiredNumbers

DeleteProduct ==
    \E id \in ProductIdsIn :
        CanCall /\ Settle(deleteProduct(Store, rendered, id)) /\ UNCHANGED retiredNumbers

\* ids a caller may name for a project: those of the rendered projects, and
\* one that is never generated
ProjectIdsIn == IdsOf(rendered.projects) \cup {UnknownId}

StatusIn == {"orcamento", "aprovado", "em_producao", "concluido", "entregue"}

TypeIn == {"orcamento", "venda"}

\* budgets in half centavos: whole centavos are even
BudgetsIn == {10, 30}

ProjectProductIn == [product_id : ProductIdsIn, quantity : {3},
                     unit_price : {300}, total_price : {900}]

ProjectProductListsIn == UNION {[1..n -> ProjectProductIn] : n \in 0..MaxItems}

\* what addProject is passed: a project with line items
ProjectDataIn == [client_id : {1}, status : StatusIn, type : TypeIn,
                  products : ProjectProductListsIn, budget : BudgetsIn]

\* what addProject is passed: a project without line items
PlainProjectDataIn == [client_id : {1}, status : StatusIn, type : TypeIn,
                       products : {<<>>}, budget : BudgetsIn]

\* the same, of one budget
BatchProjectDataIn == [client_id : {1}, status : StatusIn, type : TypeIn,
                       products : {<<>>}, budget : {10}]

\* Partial<Project>: no field, a status, a budget, or both
UpdatesIn == {<<>>} \cup [status : StatusIn] \cup [budget : BudgetsIn]
                    \cup [status : StatusIn, budget : BudgetsIn]

\* Partial<Project>: no field or a status
StatusUpdatesIn == {<<>>} \cup [status : StatusIn]

RowIn == [cliente : {"Joao Silva", "Outro"}, status : {"aprovado"},
          tipo : TypeIn, orcamento : {10}]

RowListsIn == UNION {[1..n -> RowIn] : n \in 1..MaxRows}

\* the numbers of the stored projects with this id
NumbersOf(id) == {projects[i].number : i \in {j \in DOMAIN projects : projects[j].id = id}}

\* room for n more stored projects
RoomFor(n) == Len(projects) + n <= MaxProjects

\* One call with the handlers of the current render, which may be older
\* than the collections.
AddProjectCall(d) ==
    /\ CanCall /\ RoomFor(1)
    /\ Settle(addProject(Store, rendered, d))
    /\ UNCHANGED retiredNumbers

UpdateProjectCall(id, u) ==
    /\ CanCall
    /\ Settle(updateProject(Store, rendered, id, u))
    /\ UNCHANGED retiredNumbers

DeleteProjectCall(id) ==
    /\ CanCall
    /\ Settle(deleteProject(Store, id))
    /\ retiredNumbers' = retiredNumbers \cup NumbersOf(id)

ImportProjectsCSVCall(rows) ==
    /\ CanCall /\ RoomFor(Len(rows))
    /\ Settle(importProjectsCSV(Store, rendered, rows, 1))
    /\ UNCHANGED retiredNumbers

AddProject == \E d \in BatchProjectDataIn : AddProjectCall(d)

AddProjectWithItems ==
    \E d \in ProjectDataIn : Len(projects) < MaxSales /\ AddProjectCall(d)

UpdateProject == \E id \in ProjectIdsIn, u \in StatusUpdatesIn : UpdateProjectCall(id, u)

DeleteProject == \E id \in ProjectIdsIn : DeleteProjectCall(id)

ImportProjectsCSV == \E rows \in RowListsIn : ImportProjectsCSVCall(rows)

\* One call with the handlers of the latest render: the provider renders
\* again before the caller's next call.
AddProjectRenderedCall(d) ==
    /\ RoomFor(1)
    /\ SettleAndRender(addProject(Store, rendered, d))
    /\ UNCHANGED retiredNumbers

UpdateProjectRenderedCall(id, u) ==
    /\ SettleAndRender(updateProject(Store, rendered, id, u))
    /\ UNCHANGED retiredNumbers

DeleteProjectRenderedCall(id) ==
    /\ SettleAndRender(deleteProject(Store, id))
    /\ retiredNumbers' = retiredNumbers \cup NumbersOf(id)

AddProjectRendered == \E d \in PlainProjectDataIn : AddProjectRenderedCall(d)

UpdateProjectRendered ==
    \E id \in ProjectIdsIn, u \in UpdatesIn : UpdateProjectRenderedCall(id, u)

DeleteProjectRendered == \E id \in ProjectIdsIn : DeleteProjectRenderedCall(id)

\* ---------------------------------------------------------------- init
\* The provider's load effect on a first start: one demo client, one demo
\* product, everything else empty.
demoClient == [id |-> 1, name |-> "Joao Silva"]

demoProduct == [id |-> 2, type |-> "material_bruto", components |-> <<>>,
                cost_price |-> 120, current_stock |-> 50]

Init ==
    /\ clients = <<demoClient>>
    /\ products = <<demoProduct>>
    /\ projects = <<>>
    /\ transactions = <<>>
    /\ stockMovements = <<>>
    /\ rendered = [clients |-> <<demoClient>>, projects |-> <<>>,
                   products |-> <<demoProduct>>]
    /\ nextId = 3
    /\ callsSinceRender = 0
    /\ returned = NoQuery
    /\ lastError = "none"
    /\ retiredNumbers = {}
    /\ storage = saveEffects(Store)
    /\ loading = FALSE

\* The provider's load effect on a later start: the collections come from
\* storage.  Here the stored catalog is the demo product A and a product B
\* made of 2 A, as addProduct left them in an earlier session.
productB == [id |-> 4, type |-> "parte_produto",
             components |-> <<[product_id |-> 2, quantity |-> 2,
                               unit_cost |-> 120, total_cost |-> 240]>>,
             cost_price |-> 120, current_stock |-> 50]

InitLoaded ==
    /\ clients = <<demoClient>>
    /\ products = <<productB, demoProduct>>
    /\ projects = <<>>
    /\ transactions = <<>>
    /\ stockMovements = <<>>
    /\ rendered = [clients |-> <<demoClient>>, projects |-> <<>>,
                   products |-> <<productB, demoProduct>>]
    /\ nextId = 5
    /\ callsSinceRender = 0
    /\ returned = NoQuery
    /\ lastError = "none"
    /\ retiredNumbers = {}
    /\ storage = saveEffects(Store)
    /\ loading = FALSE

NextLifecycle ==
    AddProject \/ UpdateProject \/ DeleteProject \/ ImportProjectsCSV \/ Render

\* the project handlers, called in any number up to MaxCallsPerRender with
\* the handlers of one render
SpecLifecycle == InitLoaded /\ [][NextLifecycle]_vars

NextLifecycleRendered ==
    AddProjectRendered \/ UpdateProjectRendered \/ DeleteProjectRendered

\* the project handlers, each called with the handlers of the latest render
SpecLifecycleRendered == InitLoaded /\ [][NextLifecycleRendered]_vars

NextSale == AddProjectWithItems \/ Render

\* projects with line items, added over the stored catalog
SpecSale == InitLoaded /\ [][NextSale]_vars

NextCatalog == AddProduct \/ UpdateProduct \/ DeleteProduct \/ Render

SpecCatalog == Init /\ [][NextCatalog]_vars

\* --------------------------------------------------- the stock cascade
\* The provider's load effect on a later start, with a three-level catalog
\* in storage: the demo product A, B made of 2 A, and C made of 1 B.
productC == [id |-> 3, type |-> "produto_pronto",
             components |-> <<[product_id |-> 4, quantity |-> 1,
                               unit_cost |-> 240, total_cost |-> 240]>>,
             cost_price |-> 240, current_stock |-> 50]

InitDeep ==
    /\ clients = <<demoClient>>
    /\ products = <<productB, productC, demoProduct>>
    /\ projects = <<>>
    /\ transactions = <<>>
    /\ stockMovements = <<>>
    /\ rendered = [clients |-> <<demoClient>>, projects |-> <<>>,
                   products |-> <<productB, productC, demoProduct>>]
    /\ nextId = 5
    /\ callsSinceRender = 0
    /\ returned = NoQuery
    /\ lastError = "none"
    /\ retiredNumbers = {}
    /\ storage = saveEffects(Store)
    /\ loading = FALSE

SaleLinesIn == UNION {[1..n -> ProjectProductIn] : n \in 0..MaxLines}

\* what addProject is passed: a sale with up to MaxLines line items
SaleDataIn == [client_id : {1}, status : StatusIn, type : {"venda"},
               products : SaleLinesIn, budget : {10}]

AddSaleCall(d) ==
    /\ CanCall
    /\ Len(projects) < MaxSales
    /\ SettleUpTo(addProject(Store, rendered, d), MaxCascadeId)
    /\ UNCHANGED retiredNumbers

AddSale == \E d \in SaleDataIn : AddSaleCall(d)

NextCascade == AddSale \/ Render

\* sales with line items, added over the three-level catalog
SpecCascade == InitDeep /\ [][NextCascade]_vars

\* ----------------------------------------------------------- the ledger
\* what addStockMovement is passed by a caller: a movement of a product of
\* the rendered catalog (or of none), linked to a rendered project or to none
MovementDataIn == [product_id : ProductIdsIn, type : {"entrada", "saida"},
                   quantity : {60}, unit_price : {120}, total_value : {7200},
                   project_id : {NoProject} \cup IdsOf(rendered.projects)]

\* a purchase of the demo product, linked to no project
UnlinkedMovementDataIn == [product_id : {2}, type : {"entrada"},
                           quantity : {60}, unit_price : {120}, total_value : {7200},
                           project_id : {NoProject}]

\* what addTransaction is passed by a caller: an expense linked to no project
TransactionDataIn == [project_id : {NoProject}, type : {"saida"},
                      category : {"Material"}, amount : {7}]

\* what addProject is passed: an approved sale of at most MaxItems line
\* items, all of product B
LedgerSaleDataIn ==
    [client_id : {1}, status : {"aprovado"}, type : {"venda"},
     products : {ls \in ProjectProductListsIn :
                    \A i \in DOMAIN ls : ls[i].product_id = productB.id},
     budget : {10}]

\* the stored records of s that are linked to no project
Unlinked(s) == {i \in DOMAIN s : s[i].project_id = NoProject}

AddLedgerSaleCall(d) ==
    /\ CanCall /\ RoomFor(1)
    /\ SettleUpTo(addProject(Store, rendered, d), MaxLedgerId)
    /\ UNCHANGED retiredNumbers

AddStockMovementCall(m) ==
    /\ CanCall
    /\ SettleUpTo(Ok(addStockMovement(Store, m)), MaxLedgerId)
    /\ UNCHANGED retiredNumbers

AddTransactionCall(t) ==
    /\ CanCall
    /\ SettleUpTo(Ok(addTransaction(Store, t)), MaxLedgerId)
    /\ UNCHANGED retiredNumbers

DeleteLedgerProjectCall(id) ==
    /\ CanCall
    /\ SettleUpTo(deleteProject(Store, id), MaxLedgerId)
    /\ retiredNumbers' = retiredNumbers \cup NumbersOf(id)

AddLedgerSale == \E d \in LedgerSaleDataIn : AddLedgerSaleCall(d)

AddStockMovement ==
    \E m \in MovementDataIn :
        Len(stockMovements) < MaxMovements /\ AddStockMovementCall(m)

AddUnlinkedMovement ==
    \E m \in UnlinkedMovementDataIn :
        Cardinality(Unlinked(stockMovements)) < MaxUnlinked /\ AddStockMovementCall(m)

AddTransaction ==
    \E t \in TransactionDataIn :
        Cardinality(Unlinked(transactions)) < MaxUnlinked /\ AddTransactionCall(t)

DeleteLedgerProject == \E id \in ProjectIdsIn : DeleteLedgerProjectCall(id)

NextLedger ==
    \/ AddLedgerSale \/ AddUnlinkedMovement \/ AddTransaction
    \/ DeleteLedgerProject \/ Render

\* sales added and deleted over the stored catalog, next to a movement and a
\* transaction linked to no project
SpecLedger == InitLoaded /\ [][NextLedger]_vars

NextMovement == AddLedgerSale \/ AddStockMovement \/ Render

\* movements added by hand over the stored catalog and the stored sales
SpecMovement == InitLoaded /\ [][NextMovement]_vars

\* ----------------------------------------------------------- updates
UpdateSoldProjectCall(id, u) ==
    /\ CanCall
    /\ SettleUpTo(updateProject(Store, rendered, id, u), MaxCascadeId)
    /\ UNCHANGED retiredNumbers

AddSaleOfB == \E d \in LedgerSaleDataIn : AddSaleCall(d)

\* Partial<Project>: no field, a status, or a budget
SoldUpdatesIn == StatusUpdatesIn \cup [budget : {30}]

UpdateSoldProject ==
    \E id \in ProjectIdsIn, u \in SoldUpdatesIn : UpdateSoldProjectCall(id, u)

NextUpdate == AddSaleOfB \/ UpdateSoldProject \/ Render

\* sales added over the stored catalog and updated in status and budget
SpecUpdate == InitLoaded /\ [][NextUpdate]_vars

\* ids a caller may name for a client: those of the rendered clients, and
\* one that is never generated
ClientIdsIn == IdsOf(rendered.clients) \cup {UnknownId}

ClientDataIn == [name : {"Maria Souza"}]

\* Partial<Client>: a name, or an id
ClientUpdatesIn == [name : {"Joao S. Silva"}] \cup [id : ClientIdsIn]

\* Partial<Project>: a status, or an id
ProjectFieldUpdatesIn == [status : {"em_producao"}] \cup [id : ProjectIdsIn]

\* what addProject is passed: an approved quote without line items
QuoteDataIn == [client_id : {1}, status : {"aprovado"}, type : {"orcamento"},
                products : {<<>>}, budget : {10}]

AddClientCall(d) ==
    /\ CanCall
    /\ Len(clients) < MaxClients
    /\ Settle(addClient(Store, d))
    /\ UNCHANGED retiredNumbers

UpdateClientCall(id, u) ==
    /\ CanCall
    /\ Settle(updateClient(Store, id, u))
    /\ UNCHANGED retiredNumbers

UpdateProductCall(product) ==
    /\ CanCall
    /\ Settle(updateProduct(Store, rendered, product))
    /\ UNCHANGED retiredNumbers

AddClient == \E d \in ClientDataIn : AddClientCall(d)

UpdateClient == \E id \in ClientIdsIn, u \in ClientUpdatesIn : UpdateClientCall(id, u)

AddQuote == \E d \in QuoteDataIn : AddProjectCall(d)

UpdateProjectFields ==
    \E id \in ProjectIdsIn, u \in ProjectFieldUpdatesIn : UpdateProjectCall(id, u)

\* what updateProduct is passed: a product of the rendered catalog with a
\* new cost price, under its id or under one that is never generated
RepricedProductIn ==
    {[rendered.products[i] EXCEPT !.cost_price = 130] : i \in DOMAIN rendered.products}
      \cup {[demoProduct EXCEPT !.id = UnknownId]}

UpdateStoredProduct == \E product \in RepricedProductIn : UpdateProductCall(product)

NextIdentity ==
    \/ AddClient \/ UpdateClient \/ AddQuote \/ UpdateProjectFields
    \/ UpdateStoredProduct \/ Render

\* records added and then updated in any of their fields, the id included
SpecIdentity == InitLoaded /\ [][NextIdentity]_vars

\* ------------------------------------------------------------- start-up
\* records an earlier session left in storage
storedQuote == [id |-> 5, number |-> 1, client_id |-> 1, status |-> "aprovado",
                type |-> "orcamento", products |-> <<>>, budget |-> 10]

storedTransaction == [id |-> 6, project_id |-> NoProject, type |-> "saida",
                      category |-> "Material", amount |-> 7]

storedMovement == [id |-> 7, product_id |-> 2, type |-> "entrada", quantity |-> 60,
                   unit_price |-> 120, total_value |-> 7200, project_id |-> NoProject]

\* what a start may find under each key: no item, a text that is not JSON,
\* an empty array, or an array of one record
StoredItemsIn(record) == {NoItem, BadItem, Item(<<>>), Item(<<record>>)}

\* The provider is mounted: useState([]) for every collection, loading is
\* true, and storage is as an earlier session (or anything else that writes
\* localStorage) left it.  The ids of earlier sessions are below 8.
InitStartup ==
    /\ clients = <<>>
    /\ products = <<>>
    /\ projects = <<>>
    /\ transactions = <<>>
    /\ stockMovements = <<>>
    /\ rendered = [clients |-> <<>>, projects |-> <<>>, products |-> <<>>]
    /\ nextId = 8
    /\ callsSinceRender = 0
    /\ returned = NoQuery
    /\ lastError = "none"
    /\ retiredNumbers = {}
    /\ \E c \in StoredItemsIn(demoClient), pj \in StoredItemsIn(storedQuote),
          t \in StoredItemsIn(storedTransaction), pd \in StoredItemsIn(demoProduct),
          sm \in StoredItemsIn(storedMovement) :
            storage = [clients |-> c, projects |-> pj, transactions |-> t,
                       products |-> pd, stockMovements |-> sm]
    /\ loading = TRUE

\* The load effect, run once after the first render.  The state it sets is
\* rendered, and saved by the save effects, in the render that follows.
LoadEffect ==
    /\ loading
    /\ LET loadedClients        == loadFromStorage(storage, "clients")
           loadedProjects       == loadFromStorage(storage, "projects")
           loadedTransactions   == loadFromStorage(storage, "transactions")
           loadedProducts       == loadFromStorage(storage, "products")
           loadedStockMovements == loadFromStorage(storage, "stockMovements")
           isFirstTime == /\ Len(loadedClients) = 0
                          /\ Len(loadedProjects) = 0
                          /\ Len(loadedProducts) = 0
           newClient  == [demoClient EXCEPT !.id = nextId]
           newProduct == [demoProduct EXCEPT !.id = nextId + 1]
       IN  IF isFirstTime
           THEN /\ clients' = <<newClient>>
                /\ products' = <<newProduct>>
                /\ projects' = <<>>
                /\ transactions' = <<>>
                /\ stockMovements' = <<>>
                /\ storage' =
                      saveToStorage(
                        saveToStorage(
                          saveToStorage(
                            saveToStorage(
                              saveToStorage(storage, "clients", <<newClient>>),
                              "products", <<newProduct>>),
                            "projects", <<>>),
                          "transactions", <<>>),
                        "stockMovements", <<>>)
                /\ nextId' = nextId + 2
           ELSE /\ clients' = loadedClients
                /\ projects' = loadedProjects
                /\ transactions' = loadedTransactions
                /\ products' = loadedProducts
                /\ stockMovements' = loadedStockMovements
                /\ UNCHANGED <<storage, nextId>>
    /\ loading' = FALSE
    /\ callsSinceRender' = callsSinceRender + 1
    /\ UNCHANGED <<rendered, returned, lastError, retiredNumbers>>

NextStartup == LoadEffect \/ Render

\* the provider's start over whatever storage holds
SpecStartup == InitStartup /\ [][NextStartup]_vars

\* ------------------------------------------------- records not found
DeleteClientCall(id) ==
    /\ CanCall
    /\ Settle(deleteClient(Store, id))
    /\ UNCHANGED retiredNumbers

DeleteProductCall(id) ==
    /\ CanCall
    /\ Settle(deleteProduct(Store, rendered, id))
    /\ UNCHANGED retiredNumbers

\* Partial<Client>: a name
ClientNameUpdatesIn == [name : {"Joao S. Silva"}]

\* Partial<Project>: no field, or the status concluido
CompletionUpdatesIn == {<<>>, [status |-> "concluido"]}

\* what updateProduct is passed: a product under an id of the rendered
\* catalog or under one that is never generated, without components or with
\* one component whose product_id is not in the catalog
RelinkedProductIn ==
    [id : ProductIdsIn, type : {"parte_produto"},
     components : {<<>>, <<[product_id |-> UnknownId, quantity |-> 2,
                            unit_cost |-> 120, total_cost |-> 240]>>},
     cost_price : {120}, current_stock : {50}]

RenameClient ==
    \E id \in ClientIdsIn, u \in ClientNameUpdatesIn : UpdateClientCall(id, u)

DeleteClient == \E id \in ClientIdsIn : DeleteClientCall(id)

CompleteProject ==
    \E id \in ProjectIdsIn, u \in CompletionUpdatesIn : UpdateProjectCall(id, u)

RelinkProduct == \E product \in RelinkedProductIn : UpdateProductCall(product)

DeleteRenderedProduct == \E id \in ProductIdsIn : DeleteProductCall(id)

NextNotFound ==
    \/ RenameClient \/ DeleteClient
    \/ AddQuote \/ CompleteProject \/ DeleteProject
    \/ RelinkProduct \/ DeleteRenderedProduct \/ Render

\* the update and delete handlers of the three entity collections, called
\* with ids of the rendered collections and with an id that was never stored
SpecNotFound == InitLoaded /\ [][NextNotFound]_vars

\* ----------------------------------------------------------- queries
\* The provider's load effect on a later start, for every catalog of the
\* demo product A and two more products B and C whose components are any
\* list of up to MaxCatalogComps of A, B, C and a product that is not
\* stored: the stored catalog may hold any graph, cycles included.
CatalogComponentIn == [product_id : {demoProduct.id, productB.id, productC.id, UnknownId},
                       quantity : {2}, unit_cost : {120}, total_cost : {240}]

CatalogComponentListsIn ==
    UNION {[1..n -> CatalogComponentIn] : n \in 0..MaxCatalogComps}

CatalogProductIn(id) ==
    [id : {id}, type : {"material_bruto", "parte_produto"},
     components : CatalogComponentListsIn,
     cost_price : {100}, current_stock : {50}]

InitCatalogs ==
    /\ clients = <<demoClient>>
    /\ products \in {<<b, c, demoProduct>> :
                        b \in CatalogProductIn(productB.id),
                        c \in CatalogProductIn(productC.id)}
    /\ projects = <<>>
    /\ transactions = <<>>
    /\ stockMovements = <<>>
    /\ rendered = [clients |-> clients, projects |-> projects, products |-> products]
    /\ nextId = 5
    /\ callsSinceRender = 0
    /\ returned = NoQuery
    /\ lastError = "none"
    /\ retiredNumbers = {}
    /\ storage = saveEffects(Store)
    /\ loading = FALSE

\* A query runs to its end: it reads the catalog of the render and writes
\* nothing.
Answer(r) ==
    /\ returned' = r
    /\ UNCHANGED <<clients, projects, transactions, products, stockMovements,
                   rendered, nextId, callsSinceRender, lastError, retiredNumbers,
                   storage, loading>>

CalculateProductCost ==
    \E productId \in ProductIdsIn :
        Answer([op |-> "calculateProductCost", productId |-> productId,
                result |-> calculateProductCost(rendered.products, productId, {})])

CheckCircularReference ==
    \E productId \in ProductIdsIn, componentId \in ProductIdsIn :
        Answer([op |-> "checkCircularReference", productId |-> productId,
                componentId |-> componentId,
                result |-> checkCircularReference(rendered.products, productId,
                                                  componentId, {})])

NextQuery == CalculateProductCost \/ CheckCircularReference

\* the two catalog queries, over every stored catalog
SpecQuery == InitCatalogs /\ [][NextQuery]_vars

\* ---------------------------------------------------------- dashboard
\* array.slice(-n): the last n elements
lastOf(s, n) == SubSeq(s, IF Len(s) > n THEN Len(s) - n + 1 ELSE 1, Len(s))

\* array.slice(0, n): the first n elements
firstOf(s, n) == SubSeq(s, 1, IF Len(s) > n THEN n ELSE Len(s))

\* created_at is new Date().toISOString(), taken in the object literal that
\* takes generateId() (Date.now() and a random suffix): the clock is taken to
\* tick between two creations, so the timestamps order as the ids do
createdAt(record) == record.id

\* the entry of the feed for a project (the message names its number)
projectActivity(p) ==
    [type |-> "project", number |-> p.number, date |-> createdAt(p)]

\* the entry of the feed for a transaction (the message names its direction
\* and its amount)
transactionActivity(t) ==
    [type |-> "transaction", inflow |-> (t.type = "entrada"),
     amount |-> t.amount, date |-> createdAt(t)]

\* items.sort((a, b) => new Date(b.date).getTime() - new Date(a.date).getTime()):
\* a stable sort, later dates first
RECURSIVE sortByDateDescending(_)
sortByDateDescending(items) ==
    IF items = <<>> THEN <<>>
    ELSE LET x      == items[Len(items)]
             sorted == sortByDateDescending(SubSeq(items, 1, Len(items) - 1))
             k      == Cardinality({i \in DOMAIN sorted : sorted[i].date >= x.date})
         IN  SubSeq(sorted, 1, k) \o <<x>> \o SubSeq(sorted, k + 1, Len(sorted))

\* recentActivity of getDashboardStats()
recentActivity(ps, ts) ==
    LET fromProjects     == [i \in DOMAIN lastOf(ps, 3) |-> projectActivity(lastOf(ps, 3)[i])]
        fromTransactions == [i \in DOMAIN lastOf(ts, 3) |->
                                transactionActivity(lastOf(ts, 3)[i])]
    IN  firstOf(sortByDateDescending(fromProjects \o fromTransactions), 5)

\* getDashboardStats(), as far as the activity feed goes
getDashboardStats(ps, ts) ==
    [op |-> "getDashboardStats", recentActivity |-> recentActivity(ps, ts)]

AddDashboardProjectCall(d) ==
    /\ CanCall
    /\ Len(projects) < MaxFeed
    /\ SettleUpTo(addProject(Store, rendered, d), MaxLedgerId)
    /\ UNCHANGED retiredNumbers

AddDashboardProject == \E d \in QuoteDataIn : AddDashboardProjectCall(d)

AddDashboardTransaction ==
    \E t \in TransactionDataIn : Len(transactions) < MaxFeed /\ AddTransactionCall(t)

\* A consumer calls the getDashboardStats of the latest render, whose
\* closure holds the current projects and transactions.
GetDashboardStats ==
    /\ callsSinceRender = 0
    /\ Answer(getDashboardStats(projects, transactions))

NextDashboard ==
    AddDashboardProject \/ AddDashboardTransaction \/ Render \/ GetDashboardStats

\* projects and transactions added, and the dashboard asked after a render
SpecDashboard == InitLoaded /\ [][NextDashboard]_vars

\* ------------------------------------------------------------------ CSV
\* A string is the sequence of its pieces.  A piece is one of the
\* characters the CSV code looks at (quote, comma, line feed, blank) or a
\* run of other characters; the digits of a number are one piece each.
Whitespace == {" ", "\t", "\n", "\r"}

\* array.join(separator)
RECURSIVE join(_, _)
join(parts, separator) ==
    IF parts = <<>> THEN <<>>
    ELSE IF Len(parts) = 1 THEN parts[1]
    ELSE parts[1] \o separator \o join(Tail(parts), separator)

\* the k-th smallest element of S
nth(S, k) == CHOOSE x \in S : Cardinality({y \in S : y < x}) = k - 1

\* the parts of text before, between and after the positions of cuts
partsBetween(text, cuts) ==
    [k \in 1..(Cardinality(cuts) + 1) |->
        SubSeq(text,
               IF k = 1 THEN 1 ELSE nth(cuts, k - 1) + 1,
               IF k = Cardinality(cuts) + 1 THEN Len(text) ELSE nth(cuts, k) - 1)]

\* text.split(separator)
split(text, separator) ==
    partsBetween(text, {i \in DOMAIN text : text[i] = separator})

RECURSIVE trimStart(_)
trimStart(text) ==
    IF text # <<>> /\ Head(text) \in Whitespace THEN trimStart(Tail(text)) ELSE text

RECURSIVE trimEnd(_)
trimEnd(text) ==
    IF text # <<>> /\ text[Len(text)] \in Whitespace
    THEN trimEnd(SubSeq(text, 1, Len(text) - 1))
    ELSE text

\* text.trim()
trim(text) == trimEnd(trimStart(text))

\* `"${value}"`
quoted(value) == <<"\"">> \o value \o <<"\"">>

\* `${record[field]}`: an undefined field prints as undefined
template(record, field) ==
    IF field \in DOMAIN record THEN record[field] ELSE <<"undefined">>

\* record[field] || ''
orEmpty(record, field) == IF field \in DOMAIN record THEN record[field] ELSE <<>>

\* record[field] ? 'true' : 'false'
trueOrFalse(record, field) ==
    IF field \in DOMAIN record /\ record[field] THEN <<"true">> ELSE <<"false">>

\* record[field] || 0
orZero(record, field) == IF field \in DOMAIN record THEN record[field] ELSE 0

Digits == <<"0", "1", "2", "3", "4", "5", "6", "7", "8", "9">>

\* `${n}` of a whole number that is not negative
RECURSIVE numberToString(_)
numberToString(n) ==
    IF n < 10 THEN <<Digits[n + 1]>>
    ELSE numberToString(n \div 10) \o <<Digits[(n % 10) + 1]>>

\* the value of a digit
digitValue(piece) == (CHOOSE d \in DOMAIN Digits : Digits[d] = piece) - 1

isDigit(piece) == \E d \in DOMAIN Digits : Digits[d] = piece

\* the number the leading digits of text[i..] spell after value
RECURSIVE parseDigits(_, _, _)
parseDigits(text, i, value) ==
    IF i > Len(text) \/ ~isDigit(text[i]) THEN value
    ELSE parseDigits(text, i + 1, value * 10 + digitValue(text[i]))

\* parseFloat(text), for whole numbers that are not negative: the number the
\* leading digits spell, NaN when there is none
parseFloat(text) ==
    LET digits == trimStart(text)
    IN  IF digits = <<>> \/ ~isDigit(Head(digits)) THEN [nan |-> TRUE]
        ELSE [nan |-> FALSE, value |-> parseDigits(digits, 1, 0)]

\* parseFloat(text) || default
parseFloatOr(text, default) ==
    IF parseFloat(text).nan \/ parseFloat(text).value = 0 THEN default
    ELSE parseFloat(text).value

\* field: text || undefined
optionalText(field, text) ==
    IF text = <<>> THEN <<>> ELSE [f \in {field} |-> text]

\* field: parseFloat(text) || undefined
optionalNumber(field, text) ==
    IF parseFloat(text).nan \/ parseFloat(text).value = 0 THEN <<>>
    ELSE [f \in {field} |-> parseFloat(text).value]

\* text || default
textOr(text, default) == IF text = <<>> THEN default ELSE text

\* (text as any) || default, for a field of an enumerated type: the one
\* piece of the text is the value
wordOr(text, default) ==
    IF text = <<>> THEN default
    ELSE IF Len(text) = 1 THEN text[1] ELSE "invalid"

\* parseCSVLine(line).  The loop toggles inQuotes at every quote and drops
\* the quote, ends a field at every comma met while inQuotes is false, and
\* appends every other character: inQuotes at a position is the parity of
\* the quotes before it, and a field is what lies between two such commas,
\* its quotes dropped, trimmed.
parseCSVLine(line) ==
    LET inQuotes(i) == Cardinality({j \in 1..(i - 1) : line[j] = "\""}) % 2 = 1
        commas == {i \in DOMAIN line : line[i] = "," /\ ~inQuotes(i)}
        fields == partsBetween(line, commas)
    IN  [k \in DOMAIN fields |->
            trim(SelectSeq(fields[k], LAMBDA piece : piece # "\""))]

\* values[k], k counted from 0; past the end it is undefined, which every
\* use below takes as it takes ''
valueAt(values, k) == IF k < Len(values) THEN values[k + 1] ELSE <<>>

\* headers.join(',')
headerLine(headers) == join([i \in DOMAIN headers |-> <<headers[i]>>], <<",">>)

\* [headers.join(','), ...rows].join('\n')
csvContent(headers, rows) == join(<<headerLine(headers)>> \o rows, <<"\n">>)

\* new Date().toISOString().split('T')[0] at the time of the import
today == <<"2026-11-02">>

clientHeaders ==
    <<"tipo", "nome", "endereco", "tipopessoa", "fone_comercial", "fone_celular",
      "cep", "cidade", "email", "cpf_cnpj", "inscricao_estadual", "bairro",
      "complemento", "numero", "isento_icms", "razao_social", "id_empresa",
      "fl_ativo">>

clientRow(client) ==
    join(<< <<"Cliente">>,
            quoted(client.name),
            quoted(client.address.streetType \o <<" ">> \o client.address.street),
            IF client.type = "pj" THEN <<"J">> ELSE <<"F">>,
            quoted(client.phone),
            quoted(client.mobile),
            quoted(client.address.zipCode),
            quoted(client.address.city),
            quoted(client.email),
            quoted(IF client.type = "pj" THEN template(client, "cnpj")
                                         ELSE template(client, "cpf")),
            quoted(orEmpty(client, "inscricao_estadual")),
            quoted(client.address.neighborhood),
            quoted(orEmpty(client, "complemento")),
            quoted(orEmpty(client, "numero")),
            trueOrFalse(client, "isento_icms"),
            quoted(orEmpty(client, "razao_social")),
            quoted(orEmpty(client, "id_empresa")),
            trueOrFalse(client, "fl_ativo") >>, <<",">>)

\* the content exportClientsCSV() downloads
exportClientsCSV(cs) ==
    csvContent(clientHeaders, [i \in DOMAIN cs |-> clientRow(cs[i])])

productHeaders ==
    <<"id", "nome", "descricao", "categoria", "tipo", "unidade", "custo",
      "preco_venda", "estoque_atual", "estoque_minimo", "componentes">>

\* `${c.product_name}:${c.quantity}`
componentText(c) == c.product_name \o <<":">> \o numberToString(c.quantity)

productRow(product) ==
    join(<< quoted(numberToString(product.id)),
            quoted(product.name),
            quoted(product.description),
            quoted(product.category),
            quoted(<<product.type>>),
            quoted(product.unit),
            numberToString(product.cost_price),
            numberToString(orZero(product, "sale_price")),
            numberToString(product.current_stock),
            numberToString(product.min_stock),
            quoted(join([j \in DOMAIN product.components |->
                            componentText(product.components[j])], <<";">>)) >>,
         <<",">>)

\* the content exportProductsCSV() downloads
exportProductsCSV(ps) ==
    csvContent(productHeaders, [i \in DOMAIN ps |-> productRow(ps[i])])

projectHeaders ==
    <<"numero", "cliente", "titulo", "descricao", "status", "tipo", "orcamento",
      "data_inicio", "data_fim", "custo_materiais", "custo_mao_obra",
      "margem_lucro">>

projectRow(project) ==
    join(<< numberToString(project.number),
            quoted(template(project, "client_name")),
            quoted(project.title),
            quoted(project.description),
            quoted(<<project.status>>),
            quoted(<<project.type>>),
            numberToString(project.budget),
            quoted(project.start_date),
            quoted(project.end_date),
            numberToString(orZero(project, "materials_cost")),
            numberToString(orZero(project, "labor_cost")),
            numberToString(orZero(project, "profit_margin")) >>, <<",">>)

\* the content exportProjectsCSV() downloads
exportProjectsCSV(ps) ==
    csvContent(projectHeaders, [i \in DOMAIN ps |-> projectRow(ps[i])])

transactionHeaders ==
    <<"tipo", "categoria", "descricao", "valor", "data", "projeto">>

transactionRow(transaction) ==
    join(<< quoted(<<transaction.type>>),
            quoted(transaction.category),
            quoted(transaction.description),
            numberToString(transaction.amount),
            quoted(transaction.date),
            quoted(orEmpty(transaction, "project_title")) >>, <<",">>)

\* the content exportTransactionsCSV() downloads
exportTransactionsCSV(ts) ==
    csvContent(transactionHeaders, [i \in DOMAIN ts |-> transactionRow(ts[i])])

\* importClientsCSV(file), from lines[i] on; lines is text.split('\n'), its
\* first line the header
RECURSIVE importClientsCSV(_, _, _)
importClientsCSV(st, lines, i) ==
    IF i > Len(lines) THEN Ok(st)
    ELSE LET line   == trim(lines[i])
             values == parseCSVLine(line)
             clientData ==
                 [name       |-> valueAt(values, 1),
                  type       |-> IF valueAt(values, 3) = <<"J">> THEN "pj" ELSE "pf",
                  email      |-> valueAt(values, 8),
                  phone      |-> valueAt(values, 4),
                  mobile     |-> valueAt(values, 5),
                  isento_icms |-> (valueAt(values, 14) = <<"true">>),
                  fl_ativo   |-> (valueAt(values, 17) # <<"false">>),
                  address    |-> [country      |-> <<"Brasil">>,
                                  state        |-> <<>>,
                                  city         |-> valueAt(values, 7),
                                  zipCode      |-> valueAt(values, 6),
                                  neighborhood |-> valueAt(values, 11),
                                  streetType   |-> <<"Rua">>,
                                  street       |-> valueAt(values, 2)],
                  total_projects |-> 0,
                  total_value    |-> 0]
                 @@ (IF valueAt(values, 3) = <<"F">>
                     THEN [f \in {"cpf"} |-> valueAt(values, 9)] ELSE <<>>)
                 @@ (IF valueAt(values, 3) = <<"J">>
                     THEN [f \in {"cnpj"} |-> valueAt(values, 9)] ELSE <<>>)
                 @@ optionalText("razao_social", valueAt(values, 15))
                 @@ optionalText("inscricao_estadual", valueAt(values, 10))
                 @@ optionalText("numero", valueAt(values, 13))
                 @@ optionalText("complemento", valueAt(values, 12))
                 @@ optionalText("id_empresa", valueAt(values, 16))
         IN  IF line = <<>> \/ Len(values) < 10
             THEN importClientsCSV(st, lines, i + 1)
             ELSE importClientsCSV(addClient(st, clientData).st, lines, i + 1)

\* importProductsCSV(file), from lines[i] on.  addProduct never throws
\* here: the imported product has no components.
RECURSIVE importProductsCSV(_, _, _, _)
importProductsCSV(st, snap, lines, i) ==
    IF i > Len(lines) THEN Ok(st)
    ELSE LET line   == trim(lines[i])
             values == parseCSVLine(line)
             productData ==
                 [name          |-> valueAt(values, 1),
                  description   |-> valueAt(values, 2),
                  category      |-> valueAt(values, 3),
                  type          |-> wordOr(valueAt(values, 4), "material_bruto"),
                  unit          |-> textOr(valueAt(values, 5), <<"UN">>),
                  cost_price    |-> parseFloatOr(valueAt(values, 6), 0),
                  current_stock |-> parseFloatOr(valueAt(values, 8), 0),
                  min_stock     |-> parseFloatOr(valueAt(values, 9), 0),
                  components    |-> <<>>]
                 @@ optionalNumber("sale_price", valueAt(values, 7))
         IN  IF line = <<>> \/ Len(values) < 10
             THEN importProductsCSV(st, snap, lines, i + 1)
             ELSE importProductsCSV(addProduct(st, snap, productData).st,
                                    snap, lines, i + 1)

\* importProjectsCSV(file) on the text of the file, from lines[i] on; every
\* row is added with the handlers (and the clients) of the one render the
\* import was started from
RECURSIVE importProjectsFile(_, _, _, _)
importProjectsFile(st, snap, lines, i) ==
    IF i > Len(lines) THEN Ok(st)
    ELSE LET line   == trim(lines[i])
             values == parseCSVLine(line)
             known  == \E c \in DOMAIN snap.clients :
                          snap.clients[c].name = valueAt(values, 1)
             client == snap.clients[CHOOSE c \in DOMAIN snap.clients :
                          /\ snap.clients[c].name = valueAt(values, 1)
                          /\ \A b \in 1..(c - 1) :
                                snap.clients[b].name # valueAt(values, 1)]
             projectData ==
                 [client_id      |-> client.id,
                  client_name    |-> valueAt(values, 1),
                  title          |-> valueAt(values, 2),
                  description    |-> valueAt(values, 3),
                  status         |-> wordOr(valueAt(values, 4), "orcamento"),
                  type           |-> wordOr(valueAt(values, 5), "orcamento"),
                  products       |-> <<>>,
                  budget         |-> parseFloatOr(valueAt(values, 6), 0),
                  start_date     |-> textOr(valueAt(values, 7), today),
                  end_date       |-> textOr(valueAt(values, 8), today),
                  materials_cost |-> parseFloatOr(valueAt(values, 9), 0),
                  labor_cost     |-> parseFloatOr(valueAt(values, 10), 0),
                  profit_margin  |-> parseFloatOr(valueAt(values, 11), 20)]
         IN  IF line = <<>> \/ Len(values) < 8 \/ ~known
             THEN importProjectsFile(st, snap, lines, i + 1)
             ELSE importProjectsFile(addProject(st, snap, projectData).st,
                                     snap, lines, i + 1)

\* importTransactionsCSV(file), from lines[i] on
RECURSIVE importTransactionsCSV(_, _, _)
importTransactionsCSV(st, lines, i) ==
    IF i > Len(lines) THEN Ok(st)
    ELSE LET line   == trim(lines[i])
             values == parseCSVLine(line)
             transactionData ==
                 [type        |-> wordOr(valueAt(values, 0), "entrada"),
                  category    |-> valueAt(values, 1),
                  description |-> valueAt(values, 2),
                  amount      |-> parseFloatOr(valueAt(values, 3), 0),
                  date        |-> textOr(valueAt(values, 4), today)]
                 @@ optionalText("project_title", valueAt(values, 5))
         IN  IF line = <<>> \/ Len(values) < 5
             THEN importTransactionsCSV(st, lines, i + 1)
             ELSE importTransactionsCSV(addTransaction(st, transactionData),
                                        lines, i + 1)

\* The store after the demo records of the first start were deleted.
InitEmptied ==
    /\ clients = <<>>
    /\ products = <<>>
    /\ projects = <<>>
    /\ transactions = <<>>
    /\ stockMovements = <<>>
    /\ rendered = [clients |-> <<>>, projects |-> <<>>, products |-> <<>>]
    /\ nextId = 3
    /\ callsSinceRender = 0
    /\ returned = NoQuery
    /\ lastError = "none"
    /\ retiredNumbers = {}
    /\ storage = saveEffects(Store)
    /\ loading = FALSE

\* the lists of at most MaxCsvRecords records of S
ListsOf(S) == UNION {[1..n -> S] : n \in 0..MaxCsvRecords}

\* a collection as a store holds it: every add prepends, so the record
\* created last comes first and has the largest id
Stored(list) == [i \in DOMAIN list |-> [id |-> Len(list) + 1 - i] @@ list[i]]

\* names and descriptions: one word, or words with a comma and a blank
CsvTextsIn == {<<"Ana">>, <<"Silva", ",", " ", "Ana">>}

CsvAddressIn ==
    [country : {<<"Brasil">>}, state : {<<"SP">>},
     city : {<<"Sao", " ", "Paulo">>}, zipCode : {<<"01310-100">>},
     neighborhood : {<<"Centro">>}, streetType : {<<"Rua">>, <<"Avenida">>},
     street : {<<"Exemplo">>}]

\* the clients of an exporting store: persons with a cpf, companies with a cnpj
CsvClientIn ==
    [name : CsvTextsIn, type : {"pf"}, cpf : {<<"123.456.789-00">>},
     email : {<<"ana@email.com">>}, phone : {<<"(11)", " ", "3333-4444">>},
     mobile : {<<"(11)", " ", "98888-7777">>}, fl_ativo : {TRUE},
     address : CsvAddressIn, total_projects : {0}, total_value : {0}]
      \cup
    [name : CsvTextsIn, type : {"pj"}, cnpj : {<<"12.345.678/0001-90">>},
     razao_social : {<<"Ana", " ", "Ltda">>},
     email : {<<"ana@email.com">>}, phone : {<<"(11)", " ", "3333-4444">>},
     mobile : {<<"(11)", " ", "98888-7777">>}, fl_ativo : {FALSE},
     address : CsvAddressIn, total_projects : {0}, total_value : {0}]

CsvClientListsIn == {Stored(list) : list \in ListsOf(CsvClientIn)}

CsvComponentIn ==
    [product_id : {1}, product_name : {<<"Madeira">>}, quantity : {2},
     unit : {<<"M2">>}, unit_cost : {120}, total_cost : {240}]

\* the products of an exporting store, with and without a sale price
CsvProductIn ==
    [name : {<<"Madeira">>}, description : {<<"Compensado", " ", "15mm">>},
     category : {<<"Madeiras">>}, type : {"material_bruto", "parte_produto"},
     unit : {<<"M2">>}, components : {<<>>} \cup [1..1 -> CsvComponentIn],
     cost_price : {120}, current_stock : {50}, min_stock : {10}]
      \cup
    [name : {<<"Madeira">>}, description : {<<"Compensado", " ", "15mm">>},
     category : {<<"Madeiras">>}, type : {"material_bruto", "parte_produto"},
     unit : {<<"M2">>}, components : {<<>>} \cup [1..1 -> CsvComponentIn],
     cost_price : {120}, sale_price : {180}, current_stock : {50},
     min_stock : {10}]

\* catalogs in which only a product added after product 1 is made of it
CsvProductListsIn ==
    {ps \in {Stored(list) : list \in ListsOf(CsvProductIn)} :
        \A i \in DOMAIN ps : ps[i].components # <<>> => ps[i].id > 1}

\* the projects of an exporting store: quotes without line items
CsvProjectIn ==
    [client_id : {1}, client_name : CsvTextsIn, title : {<<"Mesa">>},
     description : {<<"Mesa", " ", "de", " ", "jantar">>},
     status : {"aprovado"}, type : {"orcamento"}, products : {<<>>},
     budget : {10}, start_date : {<<"2026-10-01">>}, end_date : {<<"2026-10-30">>},
     materials_cost : {4}, labor_cost : {3}, profit_margin : {20}]

\* projects numbered from 1 on, or from 3 on after two were deleted
CsvProjectListsIn ==
    {[i \in DOMAIN list |-> [number |-> first + Len(list) - i] @@ Stored(list)[i]] :
        list \in ListsOf(CsvProjectIn), first \in {1, 3}}

\* the transactions of an exporting store, linked to a project or to none
CsvTransactionIn ==
    [type : {"entrada", "saida"}, category : {<<"Material">>},
     description : CsvTextsIn, amount : {7}, date : {<<"2026-10-30">>}]
      \cup
    [type : {"entrada"}, category : {<<"Sinal">>},
     description : CsvTextsIn, amount : {5}, date : {<<"2026-10-30">>},
     project_id : {1}, project_title : {<<"Mesa">>}]

CsvTransactionListsIn == {Stored(list) : list \in ListsOf(CsvTransactionIn)}

\* nothing is stored
StoreEmpty ==
    /\ clients = <<>> /\ projects = <<>> /\ transactions = <<>>
    /\ products = <<>> /\ stockMovements = <<>>

\* nothing but clients is stored
OnlyClientsStored ==
    /\ projects = <<>> /\ transactions = <<>>
    /\ products = <<>> /\ stockMovements = <<>>

\* text.split('\n')
linesOf(content) == split(content, "\n")

\* the loops start at lines[1], after the header; lines is indexed from 1 here
ImportClientsFileCall(content) ==
    /\ CanCall
    /\ SettleUpTo(importClientsCSV(Store, linesOf(content), 2), MaxLedgerId)
    /\ UNCHANGED retiredNumbers

ImportProductsFileCall(content) ==
    /\ CanCall
    /\ SettleUpTo(importProductsCSV(Store, rendered, linesOf(content), 2), MaxLedgerId)
    /\ UNCHANGED retiredNumbers

ImportProjectsFileCall(content) ==
    /\ CanCall
    /\ SettleUpTo(importProjectsFile(Store, rendered, linesOf(content), 2), MaxLedgerId)
    /\ UNCHANGED retiredNumbers

ImportTransactionsFileCall(content) ==
    /\ CanCall
    /\ SettleUpTo(importTransactionsCSV(Store, linesOf(content), 2), MaxLedgerId)
    /\ UNCHANGED retiredNumbers

\* A file another store exported is imported into the empty store.
ImportClientsFile ==
    \E cs \in CsvClientListsIn :
        StoreEmpty /\ ImportClientsFileCall(exportClientsCSV(cs))

ImportProductsFile ==
    \E ps \in CsvProductListsIn :
        StoreEmpty /\ ImportProductsFileCall(exportProductsCSV(ps))

ImportTransactionsFile ==
    \E ts \in CsvTransactionListsIn :
        StoreEmpty /\ ImportTransactionsFileCall(exportTransactionsCSV(ts))

\* The projects are imported after their clients.
ImportProjectsFile ==
    \E ps \in CsvProjectListsIn :
        OnlyClientsStored /\ ImportProjectsFileCall(exportProjectsCSV(ps))

\* The rendered collections are exported.
ExportClientsCSV ==
    /\ callsSinceRender = 0
    /\ Answer([op |-> "exportClientsCSV", content |-> exportClientsCSV(clients)])

ExportProductsCSV ==
    /\ callsSinceRender = 0
    /\ Answer([op |-> "exportProductsCSV", content |-> exportProductsCSV(products)])

ExportProjectsCSV ==
    /\ callsSinceRender = 0
    /\ Answer([op |-> "exportProjectsCSV", content |-> exportProjectsCSV(projects)])

ExportTransactionsCSV ==
    /\ callsSinceRender = 0
    /\ Answer([op |-> "exportTransactionsCSV",
               content |-> exportTransactionsCSV(transactions)])

NextCsv ==
    \/ ImportClientsFile \/ ImportProductsFile \/ ImportProjectsFile
    \/ ImportTransactionsFile
    \/ ExportClientsCSV \/ ExportProductsCSV \/ ExportProjectsCSV
    \/ ExportTransactionsCSV \/ Render

\* exported files imported into an empty store, and the store exported
SpecCsv == InitEmptied /\ [][NextCsv]_vars

\* ------------------------------------------------- the component graph
\* the products that id lists as components, in the catalog ps
ComponentsOf(ps, id) ==
    IF HasId(ps, id)
    THEN {FindById(ps, id).components[j].product_id :
             j \in DOMAIN FindById(ps, id).components}
    ELSE {}

RECURSIVE ClosureOf(_, _)
ClosureOf(ps, S) ==
    LET T == S \cup UNION {ComponentsOf(ps, x) : x \in S}
    IN  IF T = S THEN S ELSE ClosureOf(ps, T)

\* the ids reached from id by one or more component edges
ReachableFrom(ps, id) == ClosureOf(ps, ComponentsOf(ps, id))

Acyclic(ps) == \A i \in DOMAIN ps : ps[i].id \notin ReachableFrom(ps, ps[i].id)

\* giving product id the component list comps closes a cycle in ps
ClosesCycle(ps, id, comps) ==
    \E j \in DOMAIN comps :
        \/ comps[j].product_id = id
        \/ id \in ReachableFrom(ps, comps[j].product_id)

\* some stored product lists id as a component
UsedAsComponent(ps, id) ==
    \E i \in DOMAIN ps : \E j \in DOMAIN ps[i].components :
        ps[i].components[j].product_id = id

CollectionsUnchanged ==
    UNCHANGED <<clients, projects, transactions, products, stockMovements>>

\* C1: starting from an acyclic catalog, after any sequence of addProduct,
\* updateProduct and deleteProduct calls no product reaches itself by
\* following component edges.
C1_CatalogAcyclic == Acyclic(products)

\* C2: every updateProduct or addProduct call whose component list contains
\* an edge that would close a cycle in the stored catalog (a product listing
\* itself included) raises the circular-reference error and leaves all
\* collections as they were.
C2_CycleClosingCallRejected ==
    [][ /\ \A p \in ProductIn :
             ( /\ HasId(products, p.id)
               /\ ClosesCycle(products, p.id, p.components)
               /\ CanCall
               /\ Settle(updateProduct(Store, rendered, p)) )
             => (lastError' = "circular" /\ CollectionsUnchanged)
        /\ \A d \in ProductDataIn :
             ( /\ ClosesCycle(products, nextId + 1, d.components)
               /\ CanCall
               /\ Settle(addProduct(Store, rendered, d)) )
             => (lastError' = "circular" /\ CollectionsUnchanged)
      ]_vars

\* C3: deleteProduct(id) is rejected with an error and leaves the catalog
\* unchanged whenever a stored product lists id as a component.
C3_DeleteOfUsedProductRejected ==
    [][ \A id \in ProductIdsIn :
          ( /\ UsedAsComponent(products, id)
            /\ CanCall
            /\ Settle(deleteProduct(Store, rendered, id)) )
          => (lastError' = "in_use" /\ CollectionsUnchanged)
      ]_vars

\* ------------------------------------------------------ project claims
StoredNumbers == {projects[i].number : i \in DOMAIN projects}

\* the transactions of a category linked to a project
LinkedTransactions(id, category) ==
    {i \in DOMAIN transactions :
        transactions[i].project_id = id /\ transactions[i].category = category}

\* exactly one transaction was prepended: an inflow of half of budget,
\* linked to project id
OneInflowAdded(id, budget) ==
    /\ Len(transactions') = Len(transactions) + 1
    /\ Tail(transactions') = transactions
    /\ Head(transactions').type = "entrada"
    /\ Head(transactions').project_id = id
    /\ 2 * Head(transactions').amount = budget

\* the movements a step prepended
AddedMovements ==
    SubSeq(stockMovements', 1, Len(stockMovements') - Len(stockMovements))

\* the data of the project a step prepended, if it prepended one: the
\* project without the id and the number addProject gave it
AddedProjectData ==
    IF Len(projects') = Len(projects) + 1
    THEN {[f \in DOMAIN Head(projects') \ {"id", "number"} |-> Head(projects')[f]]}
    ELSE {}

\* C4: addProject gives the new project number 1 when no project is stored,
\* and otherwise 1 plus the largest number among the stored projects.
C4_NumberIsMaxStoredPlusOne ==
    [][ \A d \in BatchProjectDataIn :
          AddProjectCall(d) =>
            Head(projects').number =
               IF projects = <<>> THEN 1 ELSE 1 + MaxOf(StoredNumbers)
      ]_vars

\* C5: a number given to a project that was deleted since is never given to
\* a project created afterwards.
C5_NumberNeverReused ==
    [][ \A d \in PlainProjectDataIn :
          AddProjectRenderedCall(d) => Head(projects').number \notin retiredNumbers
      ]_vars

\* C6: in every reachable state the stored projects have pairwise distinct
\* numbers.
C6_NumbersDistinct ==
    \A i, j \in DOMAIN projects :
        i # j => projects[i].number # projects[j].number

\* C7: addProject of a sale with a status other than quote and budget B
\* prepends exactly one transaction, an inflow of 0.5 * B linked to the new
\* project; every movement it adds is an out movement linked to the new
\* project, there is one of the line quantity for every line item whose
\* product the handler finds, and none when there are no line items.
C7_SaleCreatesSignalAndCascade ==
    [][ \A d \in AddedProjectData :
          ( /\ d \in ProjectDataIn
            /\ d.type = "venda" /\ d.status # "orcamento"
            /\ AddProjectCall(d) ) =>
            /\ Tail(projects') = projects
            /\ OneInflowAdded(Head(projects').id, d.budget)
            /\ Len(stockMovements') >= Len(stockMovements)
            /\ SubSeq(stockMovements', Len(AddedMovements) + 1, Len(stockMovements'))
                  = stockMovements
            /\ \A m \in DOMAIN AddedMovements :
                  /\ AddedMovements[m].project_id = Head(projects').id
                  /\ AddedMovements[m].type = "saida"
            /\ \A i \in DOMAIN d.products :
                  HasId(rendered.products, d.products[i].product_id) =>
                     \E m \in DOMAIN AddedMovements :
                        /\ AddedMovements[m].product_id = d.products[i].product_id
                        /\ AddedMovements[m].quantity = d.products[i].quantity
            /\ (d.products = <<>> => AddedMovements = <<>>)
      ]_vars

\* a sale of 3 B, added with a status other than quote, is stored with its
\* signal transaction and the movements of B and of its component A
C7_Witness ==
    \E i \in DOMAIN projects :
        /\ projects[i].type = "venda"
        /\ projects[i].status # "orcamento"
        /\ projects[i].products # <<>>
        /\ \E t \in DOMAIN transactions :
              /\ transactions[t].project_id = projects[i].id
              /\ transactions[t].category = "Sinal"
              /\ 2 * transactions[t].amount = projects[i].budget
        /\ \E m \in DOMAIN stockMovements :
              /\ stockMovements[m].project_id = projects[i].id
              /\ stockMovements[m].product_id = 4
        /\ \E m \in DOMAIN stockMovements :
              /\ stockMovements[m].project_id = projects[i].id
              /\ stockMovements[m].product_id = 2
              /\ stockMovements[m].quantity = 6

\* C8: updateProject that sets status to completed on a stored project that
\* is not completed prepends exactly one inflow of 0.5 * B linked to that
\* project; on a stored project that is completed it creates no transaction.
C8_CompletionEmitsOneFinalPayment ==
    [][ \A id \in ProjectIdsIn, u \in StatusUpdatesIn :
          ( /\ "status" \in DOMAIN u
            /\ u.status = "concluido"
            /\ HasId(projects, id)
            /\ UpdateProjectCall(id, u) ) =>
              IF FindById(projects, id).status # "concluido"
              THEN OneInflowAdded(id, FindById(projects, id).budget)
              ELSE transactions' = transactions
      ]_vars

\* C9: at most one final-payment transaction linked to a project exists,
\* whatever updateProject calls were made on it.
C9_AtMostOneFinalPayment ==
    \A i \in DOMAIN projects :
        Cardinality(LinkedTransactions(projects[i].id, "Pagamento Final")) <= 1

\* C10: no addProject or updateProject call on a project whose type is
\* quote creates a transaction or a stock movement.
C10_QuoteTypeCreatesNothing ==
    [][ /\ \A d \in PlainProjectDataIn :
             (d.type = "orcamento" /\ AddProjectRenderedCall(d)) =>
                UNCHANGED <<transactions, stockMovements>>
        /\ \A id \in ProjectIdsIn, u \in UpdatesIn :
             ( /\ HasId(projects, id)
               /\ FindById(projects, id).type = "orcamento"
               /\ UpdateProjectRenderedCall(id, u) ) =>
                UNCHANGED <<transactions, stockMovements>>
      ]_vars

\* ------------------------------------------------------- cascade claims
\* a movement without the id generateId gave it
WithoutId(m) == [f \in DOMAIN m \ {"id"} |-> m[f]]

\* the movements a step added, in the order in which they were applied
AppliedMovements ==
    [k \in 1..Len(AddedMovements) |-> AddedMovements[Len(AddedMovements) + 1 - k]]

\* the components a sold line consumes: those the catalog ps lists for the
\* line's product when it is not a raw material
DirectComponents(ps, line) ==
    IF HasId(ps, line.product_id) /\ FindById(ps, line.product_id).type # "material_bruto"
    THEN FindById(ps, line.product_id).components
    ELSE <<>>

\* the out movement of the product a line sells, for project id
SoldMovement(id, line) ==
    [product_id |-> line.product_id, type |-> "saida",
     quantity |-> line.quantity, unit_price |-> line.unit_price,
     total_value |-> line.total_price, project_id |-> id]

\* the out movement of one direct component of the product a line sells
ComponentMovement(id, line, c) ==
    [product_id |-> c.product_id, type |-> "saida",
     quantity |-> c.quantity * line.quantity, unit_price |-> c.unit_cost,
     total_value |-> c.total_cost * line.quantity, project_id |-> id]

\* what the two-level rule asks of the lines: <<i, 0>> for the product of
\* line i, <<i, j>> for its j-th direct component
CascadeEntries(ps, lines) ==
    {<<i, 0>> : i \in {n \in DOMAIN lines : HasId(ps, lines[n].product_id)}}
      \cup UNION {{<<i, j>> : j \in DOMAIN DirectComponents(ps, lines[i])} :
                     i \in DOMAIN lines}

EntryMovement(ps, id, lines, e) ==
    IF e[2] = 0 THEN SoldMovement(id, lines[e[1]])
    ELSE ComponentMovement(id, lines[e[1]], DirectComponents(ps, lines[e[1]])[e[2]])

\* the ids of the products in the order the ordering guarantee gives their
\* movements: line by line, the sold product and then its components
RECURSIVE OrderOfLines(_, _)
OrderOfLines(ps, lines) ==
    IF lines = <<>> THEN <<>>
    ELSE (IF HasId(ps, Head(lines).product_id)
          THEN <<Head(lines).product_id>>
                 \o [j \in DOMAIN DirectComponents(ps, Head(lines)) |->
                        DirectComponents(ps, Head(lines))[j].product_id]
          ELSE <<>>)
         \o OrderOfLines(ps, Tail(lines))

\* C13: the cascade of a sale is two-level: the movements it adds are, as a
\* bag, one out movement at the line quantity and price for every line item
\* whose product is in the catalog, and one out movement with quantity
\* component.quantity * line.quantity and total_value component.total_cost *
\* line.quantity for every direct component of a sold product that is not a
\* raw material; nothing is added for components of components.
C13_TwoLevelCascade ==
    [][ \A d \in AddedProjectData :
          ( /\ d \in SaleDataIn
            /\ d.status # "orcamento"
            /\ AddSaleCall(d) ) =>
            LET id == Head(projects').id
                ps == rendered.products
                entries == CascadeEntries(ps, d.products)
                movementOf(e) == EntryMovement(ps, id, d.products, e)
            IN  /\ Len(AddedMovements) = Cardinality(entries)
                /\ \A e \in entries :
                      Cardinality({k \in DOMAIN AddedMovements :
                                     WithoutId(AddedMovements[k]) = movementOf(e)})
                        = Cardinality({x \in entries : movementOf(x) = movementOf(e)})
      ]_vars

\* a sale of 3 C is stored with an out movement of 3 C and one of 3 B, its
\* direct component, and with no movement of A, the component of B
C13_Witness ==
    \E i \in DOMAIN projects :
        /\ \E n \in DOMAIN projects[i].products : projects[i].products[n].product_id = 3
        /\ \A n \in DOMAIN projects[i].products : projects[i].products[n].product_id = 3
        /\ \E m \in DOMAIN stockMovements :
              /\ stockMovements[m].project_id = projects[i].id
              /\ stockMovements[m].product_id = 3
              /\ stockMovements[m].quantity = 3
        /\ \E m \in DOMAIN stockMovements :
              /\ stockMovements[m].project_id = projects[i].id
              /\ stockMovements[m].product_id = 4
              /\ stockMovements[m].quantity = 3
              /\ stockMovements[m].total_value = 720
        /\ \A m \in DOMAIN stockMovements :
              stockMovements[m].project_id = projects[i].id =>
                 stockMovements[m].product_id # 2

\* C14: the movements of one cascade are applied line item by line item,
\* and within a line item the movement of the sold product is applied before
\* the movements of its components: in the order of application (which is
\* also the order of the ids generated for them) the products are those of
\* the first line and its components, then those of the second, and so on.
C14_CascadeInLineOrder ==
    [][ \A d \in AddedProjectData :
          ( /\ d \in SaleDataIn
            /\ d.status # "orcamento"
            /\ AddSaleCall(d) ) =>
            /\ [k \in DOMAIN AppliedMovements |-> AppliedMovements[k].product_id]
                  = OrderOfLines(rendered.products, d.products)
            /\ \A k \in DOMAIN AppliedMovements : \A l \in DOMAIN AppliedMovements :
                  k < l => AppliedMovements[k].id < AppliedMovements[l].id
      ]_vars

\* a sale of the lines <<3 B, 3 A>> is stored, and its movements were
\* applied in the order B, A (component of B), A (second line)
C14_Witness ==
    \E i \in DOMAIN projects :
        /\ Len(projects[i].products) = 2
        /\ projects[i].products[1].product_id = 4
        /\ projects[i].products[2].product_id = 2
        /\ Len(stockMovements) = 3
        /\ stockMovements[3].product_id = 4 /\ stockMovements[3].quantity = 3
        /\ stockMovements[2].product_id = 2 /\ stockMovements[2].quantity = 6
        /\ stockMovements[1].product_id = 2 /\ stockMovements[1].quantity = 3
        /\ stockMovements[3].id < stockMovements[2].id
        /\ stockMovements[2].id < stockMovements[1].id

\* -------------------------------------------------------- ledger claims
\* the records of s, as a set (ids make them distinct)
RecordsOf(s) == {s[i] : i \in DOMAIN s}

\* the records of s not linked to project id
NotLinkedTo(s, id) == {r \in RecordsOf(s) : r.project_id # id}

\* s keeps the relative order t gives to the records they share
SameOrder(s, t) ==
    \A i, j \in DOMAIN s :
        i < j => \A k, l \in DOMAIN t : (t[k] = s[i] /\ t[l] = s[j]) => k < l

\* C11: after deleteProject(id) the project is not stored and no
\* transaction and no stock movement is linked to id, while the
\* transactions and the movements linked to other projects or to none are
\* all still stored, as they were and in the order they had.
C11_DeleteProjectCascades ==
    [][ \A id \in ProjectIdsIn :
          DeleteLedgerProjectCall(id) =>
            /\ ~HasId(projects', id)
            /\ \A t \in RecordsOf(transactions') : t.project_id # id
            /\ \A sm \in RecordsOf(stockMovements') : sm.project_id # id
            /\ RecordsOf(projects') = {r \in RecordsOf(projects) : r.id # id}
            /\ RecordsOf(transactions') = NotLinkedTo(transactions, id)
            /\ RecordsOf(stockMovements') = NotLinkedTo(stockMovements, id)
            /\ Len(transactions') = Cardinality(NotLinkedTo(transactions, id))
            /\ Len(stockMovements') = Cardinality(NotLinkedTo(stockMovements, id))
            /\ SameOrder(transactions', transactions)
            /\ SameOrder(stockMovements', stockMovements)
      ]_vars

\* one of two sales of 3 B was deleted (its number is retired, the stock of
\* B is the 44 the two sales left, one movement of B is stored and no record
\* is linked to the deleted id) while the other sale, its transaction and
\* its movements, and a transaction and a movement linked to no project are
\* still stored
C11_Witness ==
    /\ retiredNumbers # {}
    /\ FindById(products, 4).current_stock = 44
    /\ Cardinality({m \in DOMAIN stockMovements : stockMovements[m].product_id = 4}) = 1
    /\ \E i \in DOMAIN projects :
          /\ \E t \in DOMAIN transactions : transactions[t].project_id = projects[i].id
          /\ \E m \in DOMAIN stockMovements : stockMovements[m].project_id = projects[i].id
    /\ \E t \in DOMAIN transactions : transactions[t].project_id = NoProject
    /\ \E m \in DOMAIN stockMovements : stockMovements[m].project_id = NoProject
    /\ \A t \in DOMAIN transactions :
          transactions[t].project_id \in {NoProject} \cup IdsOf(projects)
    /\ \A m \in DOMAIN stockMovements :
          stockMovements[m].project_id \in {NoProject} \cup IdsOf(projects)

\* the stock a product was created with
StockAtCreation(id) ==
    FindById(<<productB, productC, demoProduct>>, id).current_stock

\* the signed sum of the quantities of the movements of ms that reference
\* product id: in adds, out subtracts
RECURSIVE SignedSum(_, _)
SignedSum(ms, id) ==
    IF ms = <<>> THEN 0
    ELSE (IF Head(ms).product_id # id THEN 0
          ELSE IF Head(ms).type = "entrada" THEN Head(ms).quantity
          ELSE 0 - Head(ms).quantity)
         + SignedSum(Tail(ms), id)

\* C12: in every reachable state each stored product's current_stock is its
\* stock at creation plus the signed sum of the quantities of the stored
\* movements that reference it.
C12_StockMatchesLedger ==
    \A i \in DOMAIN products :
        products[i].current_stock =
            StockAtCreation(products[i].id) + SignedSum(stockMovements, products[i].id)

\* the data of the movement a step prepended, if it prepended exactly one
AddedMovementData ==
    IF Len(stockMovements') = Len(stockMovements) + 1
    THEN {WithoutId(Head(stockMovements'))}
    ELSE {}

\* C18: addStockMovement prepends exactly one movement, the one it was
\* passed, and changes current_stock of the referenced product by +quantity
\* for an in movement and by -quantity for an out movement, below zero where
\* that is the result; every other product and every other field of every
\* product is as it was.
C18_MovementFrame ==
    [][ \A m \in AddedMovementData :
          (m \in MovementDataIn /\ AddStockMovementCall(m)) =>
            /\ Tail(stockMovements') = stockMovements
            /\ DOMAIN products' = DOMAIN products
            /\ \A i \in DOMAIN products :
                  /\ DOMAIN products'[i] = DOMAIN products[i]
                  /\ \A f \in DOMAIN products[i] \ {"current_stock"} :
                        products'[i][f] = products[i][f]
                  /\ products'[i].current_stock - products[i].current_stock =
                        IF products[i].id # m.product_id THEN 0
                        ELSE IF m.type = "entrada" THEN m.quantity
                        ELSE 0 - m.quantity
      ]_vars

\* an out movement of 60 A, linked to no project, is stored and the stock
\* of A is below zero while that of B is still the 50 it was created with
C18_Witness ==
    /\ \E m \in DOMAIN stockMovements :
          /\ stockMovements[m].project_id = NoProject
          /\ stockMovements[m].product_id = 2
          /\ stockMovements[m].type = "saida"
          /\ stockMovements[m].quantity = 60
    /\ FindById(products, 2).current_stock = 0 - 10
    /\ FindById(products, 4).current_stock = 50

\* --------------------------------------------------------- query claims
\* f[1] + ... + f[n]
RECURSIVE SumTo(_, _)
SumTo(f, n) == IF n = 0 THEN 0 ELSE f[n] + SumTo(f, n - 1)

\* The costs of the products of ps, worked out bottom-up: `known` maps the
\* ids priced so far to their cost; a raw material costs its cost_price, a
\* product that is not stored costs 0, and a composite is priced once all
\* its components are, at the sum of component cost times quantity.
RECURSIVE CostsFrom(_, _)
CostsFrom(ps, known) ==
    LET isPriced(id) == ~HasId(ps, id) \/ id \in DOMAIN known
        priceOf(id)  == IF HasId(ps, id) THEN known[id] ELSE 0
        ready == {i \in DOMAIN ps :
                    /\ ps[i].id \notin DOMAIN known
                    /\ \/ ps[i].type = "material_bruto"
                       \/ \A j \in DOMAIN ps[i].components :
                             isPriced(ps[i].components[j].product_id)}
        costOf(i) == IF ps[i].type = "material_bruto" THEN ps[i].cost_price
                     ELSE SumTo([j \in DOMAIN ps[i].components |->
                                   priceOf(ps[i].components[j].product_id)
                                     * ps[i].components[j].quantity],
                                Len(ps[i].components))
        more == [id \in {ps[i].id : i \in ready} |-> costOf(IndexOfId(ps, id))]
    IN  IF ready = {} THEN known ELSE CostsFrom(ps, more @@ known)

ResolvedCost(ps, id) ==
    IF HasId(ps, id) THEN CostsFrom(ps, [x \in {} |-> 0])[id] ELSE 0

C16_CheckIsReachability ==
    (returned.op = "checkCircularReference" /\ Acyclic(products)) =>
        /\ returned.result \in {"true", "false"}
        /\ returned.result = "true" <=>
              \/ returned.componentId = returned.productId
              \/ returned.productId \in ReachableFrom(products, returned.componentId)
        /\ ~HasId(products, returned.componentId) => returned.result = "false"

\* C16 as amended: on an acyclic catalog checkCircularReference(candidate,
\* proposed) returns true if and only if proposed equals candidate or
\* candidate is reachable from proposed by component edges, and it returns
\* false when proposed is not in the catalog and is not the candidate.
C16_CheckIsReachabilityAmended ==
    (returned.op = "checkCircularReference" /\ Acyclic(products)) =>
        /\ returned.result \in {"true", "false"}
        /\ returned.result = "true" <=>
              \/ returned.componentId = returned.productId
              \/ returned.productId \in ReachableFrom(products, returned.componentId)
        /\ ( /\ ~HasId(products, returned.componentId)
             /\ returned.componentId # returned.productId ) =>
              returned.result = "false"

\* on an acyclic catalog the check returned true for a candidate that the
\* proposed component reaches, but not by one edge
C16_Witness ==
    /\ returned.op = "checkCircularReference"
    /\ Acyclic(products)
    /\ returned.result = "true"
    /\ returned.componentId # returned.productId
    /\ returned.productId \notin ComponentsOf(products, returned.componentId)
    /\ returned.productId \in ReachableFrom(products, returned.componentId)

\* C17: checkCircularReference terminates on every catalog, one that
\* already contains a cycle included: no call of it, by a caller or by
\* addProduct and updateProduct, ends in the RangeError of a recursion that
\* never returns.
C17_CheckTerminates ==
    /\ lastError # "RangeError"
    /\ returned.op = "checkCircularReference" => returned.result # "overflow"

\* -------------------------------------------------------- update claims
\* C19: updateProject whose update sets status to quote, approved,
\* in_production or delivered, or sets no status at all, leaves the
\* transactions, the stock movements and every product's current_stock as
\* they were: a step that changes any of them is the step of no such call.
C19_OtherStatusesChangeNoLedger ==
    [][ \/ /\ transactions' = transactions
           /\ stockMovements' = stockMovements
           /\ DOMAIN products' = DOMAIN products
           /\ \A i \in DOMAIN products :
                 products'[i].current_stock = products[i].current_stock
        \/ \A id \in ProjectIdsIn, u \in SoldUpdatesIn :
              ("status" \in DOMAIN u => u.status # "concluido")
                 => ~UpdateSoldProjectCall(id, u)
      ]_vars

\* a sale of 3 B added as approved is stored as delivered, with the one
\* transaction and the two movements its creation made and the stocks the
\* cascade left
C19_Witness ==
    /\ Len(projects) = 1
    /\ projects[1].status = "entregue"
    /\ projects[1].products # <<>>
    /\ Len(transactions) = 1
    /\ transactions[1].category = "Sinal"
    /\ Len(stockMovements) = 2
    /\ FindById(products, 4).current_stock = 47
    /\ FindById(products, 2).current_stock = 44

\* the ids of the records of s, in their order
IdsIn(s) == [k \in DOMAIN s |-> s[k].id]

Distinct(ids) == \A k, l \in DOMAIN ids : k # l => ids[k] # ids[l]

\* C20: no updateClient, updateProject or updateProduct call, whatever
\* fields its update carries, changes the id of a stored record, and the ids
\* of each collection stay pairwise distinct.
C20_IdsImmutable ==
    [][ /\ \A id \in ClientIdsIn, u \in ClientUpdatesIn :
             UpdateClientCall(id, u) =>
                (IdsIn(clients') = IdsIn(clients) /\ Distinct(IdsIn(clients')))
        /\ \A id \in ProjectIdsIn, u \in ProjectFieldUpdatesIn :
             UpdateProjectCall(id, u) =>
                (IdsIn(projects') = IdsIn(projects) /\ Distinct(IdsIn(projects')))
        /\ \A product \in RepricedProductIn :
             UpdateProductCall(product) =>
                (IdsIn(products') = IdsIn(products) /\ Distinct(IdsIn(products')))
      ]_vars

\* ----------------------------------------------- claims: not found
\* C21: a call of updateClient, deleteClient, updateProject, deleteProject,
\* updateProduct or deleteProduct with an id that matches no stored record
\* of its collection raises no error and leaves the five collections as
\* they were, whatever the update carries (a status of concluido included).
C21_UnknownIdIsNoOp ==
    [][ \/ lastError' = "none" /\ CollectionsUnchanged
        \/ /\ \A id \in ClientIdsIn \ IdsOf(clients) :
                 /\ ~DeleteClientCall(id)
                 /\ \A u \in ClientNameUpdatesIn : ~UpdateClientCall(id, u)
           /\ \A id \in ProjectIdsIn \ IdsOf(projects) :
                 /\ ~DeleteProjectCall(id)
                 /\ \A u \in CompletionUpdatesIn : ~UpdateProjectCall(id, u)
           /\ \A id \in ProductIdsIn \ IdsOf(products) :
                 /\ ~DeleteProductCall(id)
                 /\ \A product \in RelinkedProductIn :
                       product.id = id => ~UpdateProductCall(product) ]_vars

\* ------------------------------------------- claims: stale snapshot
\* C22: every updateProduct call is validated against the catalog left by
\* the calls issued before it, rendered or not: it ends as it would with
\* the current catalog in place of the rendered one, and from an acyclic
\* catalog it leaves an acyclic one (so of two calls from one render, one
\* adding B to A and one adding A to B, the second is rejected).  The calls
\* looked at are those of a stored product with stored components.
C22_CallSeesEarlierCalls ==
    [][ \A product \in ProductIn :
            ( /\ HasId(products, product.id)
              /\ \A j \in DOMAIN product.components :
                    HasId(products, product.components[j].product_id)
              /\ UpdateProductCall(product) ) =>
                /\ lastError' = updateProduct(Store, Snapshot, product).error
                /\ products' = updateProduct(Store, Snapshot, product).st.products
                /\ (Acyclic(products) => Acyclic(products')) ]_vars

\* ------------------------------------------------ claims: dashboard
\* the n records of s created last
MostRecent(s, n) ==
    {r \in RecordsOf(s) : Cardinality({q \in RecordsOf(s) : q.id > r.id}) < n}

\* the entries for the 3 projects and the 3 transactions created last
FeedSource(ps, ts) ==
    {projectActivity(p) : p \in MostRecent(ps, 3)}
        \cup {transactionActivity(t) : t \in MostRecent(ts, 3)}

\* the entries of a feed, as a set
EntriesOf(feed) == {feed[i] : i \in DOMAIN feed}

\* C23: the activity feed getDashboardStats returns has at most 5 entries,
\* all of them taken from the 3 projects and the 3 transactions created
\* last, latest first, and it leaves out only entries that are no later
\* than every entry it holds (none while it has fewer than 5).
C23_FeedShowsLatest ==
    [][ (returned' # returned /\ returned'.op = "getDashboardStats") =>
          LET feed == returned'.recentActivity
              left == FeedSource(projects, transactions) \ EntriesOf(feed)
          IN  /\ Len(feed) <= 5
              /\ Cardinality(EntriesOf(feed)) = Len(feed)
              /\ EntriesOf(feed) \subseteq FeedSource(projects, transactions)
              /\ \A i, j \in DOMAIN feed : i < j => feed[i].date >= feed[j].date
              /\ left # {} => Len(feed) = 5
              /\ \A x \in left : \A i \in DOMAIN feed : feed[i].date >= x.date
      ]_vars

\* ------------------------------------------------------- claims: CSV
\* how often x is in s
Occurrences(s, x) == Cardinality({i \in DOMAIN s : s[i] = x})

\* s and t hold the same values, each as often, in any order
SameValues(s, t) ==
    /\ Len(s) = Len(t)
    /\ \A i \in DOMAIN s : Occurrences(s, s[i]) = Occurrences(t, s[i])

\* the fields of a client that the columns of the clients file carry
ClientColumns(c) ==
    [nome               |-> c.name,
     endereco           |-> c.address.streetType \o <<" ">> \o c.address.street,
     tipopessoa         |-> c.type,
     fone_comercial     |-> c.phone,
     fone_celular       |-> c.mobile,
     cep                |-> c.address.zipCode,
     cidade             |-> c.address.city,
     email              |-> c.email,
     cpf_cnpj           |-> IF c.type = "pj" THEN orEmpty(c, "cnpj")
                                             ELSE orEmpty(c, "cpf"),
     inscricao_estadual |-> orEmpty(c, "inscricao_estadual"),
     bairro             |-> c.address.neighborhood,
     complemento        |-> orEmpty(c, "complemento"),
     numero             |-> orEmpty(c, "numero"),
     isento_icms        |-> ("isento_icms" \in DOMAIN c /\ c.isento_icms),
     razao_social       |-> orEmpty(c, "razao_social"),
     id_empresa         |-> orEmpty(c, "id_empresa"),
     fl_ativo           |-> c.fl_ativo]

\* the fields of a product that the columns of the products file carry,
\* the id apart
ProductColumns(p) ==
    [nome           |-> p.name,
     descricao      |-> p.description,
     categoria      |-> p.category,
     tipo           |-> p.type,
     unidade        |-> p.unit,
     custo          |-> p.cost_price,
     preco_venda    |-> orZero(p, "sale_price"),
     estoque_atual  |-> p.current_stock,
     estoque_minimo |-> p.min_stock,
     componentes    |-> [j \in DOMAIN p.components |->
                            <<p.components[j].product_name,
                              p.components[j].quantity>>]]

\* the fields of a project that the columns of the projects file carry
ProjectColumns(p) ==
    [numero          |-> p.number,
     cliente         |-> orEmpty(p, "client_name"),
     titulo          |-> p.title,
     descricao       |-> p.description,
     status          |-> p.status,
     tipo            |-> p.type,
     orcamento       |-> p.budget,
     data_inicio     |-> p.start_date,
     data_fim        |-> p.end_date,
     custo_materiais |-> orZero(p, "materials_cost"),
     custo_mao_obra  |-> orZero(p, "labor_cost"),
     margem_lucro    |-> orZero(p, "profit_margin")]

\* the fields of a transaction that the columns of the transactions file carry
TransactionColumns(t) ==
    [tipo      |-> t.type,
     categoria |-> t.category,
     descricao |-> t.description,
     valor     |-> t.amount,
     data      |-> t.date,
     projeto   |-> orEmpty(t, "project_title")]

ClientsRoundTrip ==
    \A cs \in CsvClientListsIn :
        (StoreEmpty /\ ImportClientsFileCall(exportClientsCSV(cs))) =>
            SameValues([i \in DOMAIN clients' |-> ClientColumns(clients'[i])],
                       [i \in DOMAIN cs |-> ClientColumns(cs[i])])

ProductsRoundTrip ==
    \A ps \in CsvProductListsIn :
        (StoreEmpty /\ ImportProductsFileCall(exportProductsCSV(ps))) =>
            SameValues([i \in DOMAIN products' |-> ProductColumns(products'[i])],
                       [i \in DOMAIN ps |-> ProductColumns(ps[i])])

TransactionsRoundTrip ==
    \A ts \in CsvTransactionListsIn :
        (StoreEmpty /\ ImportTransactionsFileCall(exportTransactionsCSV(ts))) =>
            SameValues([i \in DOMAIN transactions' |->
                           TransactionColumns(transactions'[i])],
                       [i \in DOMAIN ts |-> TransactionColumns(ts[i])])

\* for the projects the store holds the clients the file names
ProjectsRoundTrip ==
    \A ps \in CsvProjectListsIn :
        ( /\ OnlyClientsStored
          /\ \A i \in DOMAIN ps :
                \E c \in DOMAIN rendered.clients :
                    rendered.clients[c].name = ps[i].client_name
          /\ ImportProjectsFileCall(exportProjectsCSV(ps)) ) =>
            SameValues([i \in DOMAIN projects' |-> ProjectColumns(projects'[i])],
                       [i \in DOMAIN ps |-> ProjectColumns(ps[i])])

\* C24: importing the file exported from a collection into an empty store
\* leaves as many records as were exported, with the same value in every
\* field a column of the file carries (the components of a product, the
\* number of a project and the street address of a client among them); ids
\* and creation timestamps are not compared.
C24_RoundTrip ==
    [][ /\ ClientsRoundTrip
        /\ ProductsRoundTrip
        /\ ProjectsRoundTrip
        /\ TransactionsRoundTrip ]_vars

\* ---------------------------------------------------- claims: start-up
\* C25: the load effect keeps what storage held: every transaction and
\* every stock movement of an array that loadFromStorage could read is in
\* memory when the effect has run and still in storage after the saves the
\* effect makes, whatever the other three keys hold; and the save effects
\* of the render that follows write what memory holds.
C25_LoadKeepsLedgers ==
    [][ /\ (loading /\ ~loading') =>
            /\ storage["transactions"].state = "ok" =>
                  /\ RecordsOf(storage["transactions"].value)
                        \subseteq RecordsOf(transactions')
                  /\ RecordsOf(storage["transactions"].value)
                        \subseteq RecordsOf(loadFromStorage(storage', "transactions"))
            /\ storage["stockMovements"].state = "ok" =>
                  /\ RecordsOf(storage["stockMovements"].value)
                        \subseteq RecordsOf(stockMovements')
                  /\ RecordsOf(storage["stockMovements"].value)
                        \subseteq RecordsOf(loadFromStorage(storage', "stockMovements"))
        /\ (~loading /\ callsSinceRender' = 0) =>
            /\ RecordsOf(transactions)
                  \subseteq RecordsOf(loadFromStorage(storage', "transactions"))
            /\ RecordsOf(stockMovements)
                  \subseteq RecordsOf(loadFromStorage(storage', "stockMovements"))
      ]_vars

====
